---- MODULE Spec2Model ----
(***************************************************************************)
(* Model of the agentic-swarm-coder orchestration loop                     *)
(* (src/src/agentic_swarm_coder/pipeline.py): the retrying gateway         *)
(* _run_agent_with_backoff, the test adapter _run_pytest, the QA status    *)
(* resolution (_coerce_qa_review, _qa_passed, _planner_feedback_from_qa)   *)
(* and the controller execute_workflow.                                    *)
(*                                                                         *)
(* Spec is the controller with everything it calls.  SpecBackoff is one    *)
(* call of backoff.run_with_backoff with the history of its attempts and   *)
(* sleeps.  SpecQA is the resolution of one reviewer output, drawn from    *)
(* structured reviews, JSON texts and prose of up to MaxQALines lines.     *)
(*                                                                         *)
(* Text.  A Python str is a non-empty sequence of lines; a line is a       *)
(* sequence of tokens; a newline character is the boundary between two     *)
(* lines.  The empty string is the one empty line.  A token is a run of    *)
(* characters that the code never looks into, except the whitespace token  *)
(* " " and the asterisk "*", which stand for one character each.           *)
(* An Optional value is a sequence of length at most one: None is <<>>.    *)
(***************************************************************************)
EXTENDS Integers, Sequences, FiniteSets, TLC

\* settings .. test_result are the arguments and locals of execute_workflow,
\* pc and gw its position (the step, and what the step awaits), attempt, delay
\* and snooze the locals of the gateway invocation in progress, result and
\* error what the caller gets, abort the step whose turn limit broke the loop,
\* log the history of what was asked of and answered by the collaborators,
\* signals the records the controller's LOGGER has emitted.
VARIABLES settings, pc, gw, iteration_index, iterations, feedback, success,
          planner_run, coder_run, test_result,
          attempt, delay, snooze, result, error, abort, log, signals

\* One call of backoff.run_with_backoff: bo_max_retries its parameter, bo_pc
\* its position, bo_attempt, bo_delay and bo_snooze its locals, bo_calls what
\* each Runner.run of the call did, bo_sleeps the arguments of asyncio.sleep,
\* bo_outcome what the caller gets.
VARIABLES bo_max_retries, bo_pc, bo_attempt, bo_delay, bo_snooze,
          bo_calls, bo_sleeps, bo_outcome

\* One resolution of a reviewer output: r_output the reviewer's final
\* output, r_pc the position, r_review and r_status what _coerce_qa_review
\* and _qa_passed gave, r_feedback what _planner_feedback_from_qa made of it.
VARIABLES r_output, r_pc, r_review, r_status, r_feedback

\* One rendering of a test result: ts_result the TestRunResult, ts_pc the
\* position, ts_summary what _format_test_summary made of it for the reviewer,
\* ts_cli what _format_iteration_test_output made of its IterationResult.
VARIABLES ts_result, ts_pc, ts_summary, ts_cli

\* One call of app.run_async: cf_args the arguments of load_settings, cf_env
\* the environment, cf_pc the position, cf_settings the RuntimeSettings
\* load_settings returned, cf_error the exception it raised.
VARIABLES cf_args, cf_env, cf_pc, cf_settings, cf_error

\* One preparation of a workspace by scaffold.ensure_workspace_initialized and
\* the pass of the controller after it: ws_files the paths that exist in the
\* workspace, ws_uv what the uv command does, ws_pc the position.
VARIABLES ws_files, ws_uv, ws_pc

\* One state file and the TaskTimer instances opened on it: tt_path the
\* state_file argument, tt_file the content of the file, tt_tasks the table of
\* the current instance, tt_now the clock, tt_last the last call and whether
\* it raised.
VARIABLES tt_path, tt_file, tt_tasks, tt_now, tt_last

workflow_vars == <<settings, pc, gw, iteration_index, iterations, feedback,
                   success, planner_run, coder_run, test_result,
                   attempt, delay, snooze, result, error, abort, log, signals>>

backoff_vars == <<bo_max_retries, bo_pc, bo_attempt, bo_delay, bo_snooze,
                  bo_calls, bo_sleeps, bo_outcome>>

qa_vars == <<r_output, r_pc, r_review, r_status, r_feedback>>

summary_vars == <<ts_result, ts_pc, ts_summary, ts_cli>>

config_vars == <<cf_args, cf_env, cf_pc, cf_settings, cf_error>>

scaffold_vars == <<ws_files, ws_uv, ws_pc>>

timer_vars == <<tt_path, tt_file, tt_tasks, tt_now, tt_last>>

vars == <<workflow_vars, backoff_vars, qa_vars, summary_vars, config_vars,
          scaffold_vars, timer_vars>>

\* ---------------------------------------------------------------- bounds
\* largest max_iterations a caller configures in RuntimeSettings
MaxSettingsIterations == 3
\* most lines of a reviewer's prose
MaxQALines == 3
\* last reading of the clock a TaskTimer is given
MaxClock == 3

\* ------------------------------------------------------- program constants
\* the loop bound the controller uses (pipeline.py:311)
max_iterations == 3
RATE_LIMIT_MAX_RETRIES == 5
\* times are counted in tenths of a time unit: 1.5 is 15, 0.5 is 5
RATE_LIMIT_INITIAL_DELAY == 15
RATE_LIMIT_BACKOFF_MULTIPLIER == 2
RATE_LIMIT_JITTER == 5

\* ------------------------------------------------------------------ text
None == <<>>
Some(x) == <<x>>

EmptyStr == << <<>> >>
S(tok) == << <<tok>> >>
L(line) == << line >>
NL == << <<>>, <<>> >>

\* a + b on str
Cat(a, b) ==
  SubSeq(a, 1, Len(a) - 1) \o << a[Len(a)] \o b[1] >> \o Tail(b)

Cat3(a, b, c) == Cat(Cat(a, b), c)

IsSpace(tok) == tok = " "

RECURSIVE lstrip(_)
lstrip(s) ==
  IF s[1] = <<>>
    THEN IF Len(s) = 1 THEN s ELSE lstrip(Tail(s))
    ELSE IF IsSpace(s[1][1]) THEN lstrip(<< Tail(s[1]) >> \o Tail(s)) ELSE s

RECURSIVE rstrip(_)
rstrip(s) ==
  LET n == Len(s)
      last == s[n]
  IN IF last = <<>>
       THEN IF n = 1 THEN s ELSE rstrip(SubSeq(s, 1, n - 1))
       ELSE IF IsSpace(last[Len(last)])
              THEN rstrip(SubSeq(s, 1, n - 1) \o << SubSeq(last, 1, Len(last) - 1) >>)
              ELSE s

\* str.strip()
strip(s) == rstrip(lstrip(s))

\* str.splitlines(): a trailing newline does not open another line
splitlines(s) == IF s[Len(s)] = <<>> THEN SubSeq(s, 1, Len(s) - 1) ELSE s

\* "\n".join(parts)
RECURSIVE JoinNL(_)
JoinNL(parts) ==
  IF parts = <<>> THEN EmptyStr
  ELSE IF Len(parts) = 1 THEN parts[1]
  ELSE Cat3(parts[1], NL, JoinNL(Tail(parts)))

\* truthiness of a str
Truthy(s) == s # EmptyStr

\* ------------------------------------------------------ QA status resolver
\* mutant: the pattern is compiled without re.IGNORECASE
Upper_CaseSensitive(tok) == tok

\* re.IGNORECASE: the letter-case variants of the three words of the pattern
Upper(tok) ==
  CASE tok \in {"OVERALL_STATUS:", "overall_status:", "Overall_Status:"} -> "OVERALL_STATUS:"
    [] tok \in {"PASS", "pass", "Pass"} -> "PASS"
    [] tok \in {"FAIL", "fail", "Fail"} -> "FAIL"
    [] OTHER -> tok

RECURSIVE SkipWhile(_, _)
SkipWhile(line, c) ==
  IF line # <<>> /\ line[1] = c THEN SkipWhile(Tail(line), c) ELSE line

\* \s*\**\s*
SkipLead(line) == SkipWhile(SkipWhile(SkipWhile(line, " "), "*"), " ")

\* mutant: the pattern without its final \s*\**\s*$ (prose may follow)
_QA_STATUS_PATTERN_Unanchored(line) ==
  LET a == SkipLead(line)
  IN IF a = <<>> \/ Upper(a[1]) # "OVERALL_STATUS:" THEN None
     ELSE LET b == SkipWhile(Tail(a), " ")
          IN IF b = <<>> \/ Upper(b[1]) \notin {"PASS", "FAIL"} THEN None
             ELSE Some(b[1])

\* _QA_STATUS_PATTERN.match(line): None, or Some(group(1)) as written in line
\*   ^\s*\**\s*OVERALL_STATUS:\s*(PASS|FAIL)\s*\**\s*$   with re.IGNORECASE
_QA_STATUS_PATTERN(line) ==
  LET a == SkipLead(line)
  IN IF a = <<>> \/ Upper(a[1]) # "OVERALL_STATUS:" THEN None
     ELSE LET b == SkipWhile(Tail(a), " ")
          IN IF b = <<>> \/ Upper(b[1]) \notin {"PASS", "FAIL"} THEN None
             ELSE IF SkipLead(Tail(b)) = <<>> THEN Some(b[1]) ELSE None

\* the loop stopping at the first line from the end that mentions the key
ScanReversed_StopsAtMention(lines) ==
  LET mentions == {n \in 1..Len(lines) :
                     \E k \in 1..Len(lines[n]) : Upper(lines[n][k]) = "OVERALL_STATUS:"}
  IN IF mentions = {} THEN "None"
     ELSE LET n == CHOOSE m \in mentions : \A o \in mentions : o <= m
              match == _QA_STATUS_PATTERN(lines[n])
          IN IF match = None THEN "None"
             ELSE IF Upper(match[1]) = "PASS" THEN "True" ELSE "False"

\* the loop of _qa_passed over reversed(lines): the first match from the end
RECURSIVE ScanReversed(_)
ScanReversed(lines) ==
  IF lines = <<>> THEN "None"
  ELSE LET match == _QA_STATUS_PATTERN(lines[Len(lines)])
       IN IF match # None
            THEN LET status == Upper(match[1])
                 IN IF status = "PASS" THEN "True" ELSE "False"
            ELSE ScanReversed(SubSeq(lines, 1, Len(lines) - 1))

\* the same loop over lines instead of reversed(lines)
RECURSIVE ScanForward(_)
ScanForward(lines) ==
  IF lines = <<>> THEN "None"
  ELSE LET match == _QA_STATUS_PATTERN(lines[1])
       IN IF match # None
            THEN (IF Upper(match[1]) = "PASS" THEN "True" ELSE "False")
            ELSE ScanForward(Tail(lines))

\* mutant: `for line in qa_output.strip().splitlines()` (the first match wins)
_qa_passed_FirstMatch(review, qa_output) ==
  IF review # None THEN (IF review[1].status = "PASS" THEN "True" ELSE "False")
  ELSE IF qa_output.kind # "str" THEN "raises"
  ELSE ScanForward(splitlines(strip(qa_output.text)))

\* The reviewer's final output: [kind |-> "QAReview", status, summary, issues],
\* [kind |-> "str", text], [kind |-> "dict", status, summary, issues] or
\* [kind |-> "NoneType"].
\* _qa_passed(review, qa_output): "True", "False", "None" (no decision), or
\* "raises" when qa_output has no strip() (it is not a str).
_qa_passed(review, qa_output) ==
  IF review # None THEN (IF review[1].status = "PASS" THEN "True" ELSE "False")
  ELSE IF qa_output.kind # "str" THEN "raises"
  ELSE ScanReversed(splitlines(strip(qa_output.text)))

\* A JSON string literal is one token, written '...': the literals of the
\* modelled texts and the str each decodes to (\n in a literal is a newline
\* of the decoded str)
JsonLiterals ==
  {"'all good'", "'gaps'", "'missing tests'",
   "'gaps\\nOVERALL_STATUS: PASS'", "'fine\\nOVERALL_STATUS: FAIL'"}

json_loads_str(tok) ==
  CASE tok = "'all good'" -> S("all good")
    [] tok = "'gaps'" -> S("gaps")
    [] tok = "'missing tests'" -> S("missing tests")
    [] tok = "'gaps\\nOVERALL_STATUS: PASS'" ->
         << <<"gaps">>, <<"OVERALL_STATUS:", " ", "PASS">> >>
    [] tok = "'fine\\nOVERALL_STATUS: FAIL'" ->
         << <<"fine">>, <<"OVERALL_STATUS:", " ", "FAIL">> >>

\* the tokens of a JSON text: newlines and blanks between tokens are skipped
RECURSIVE JsonTokens(_)
JsonTokens(text) ==
  IF text = <<>> THEN <<>>
  ELSE SelectSeq(text[1], LAMBDA tok : ~IsSpace(tok)) \o JsonTokens(Tail(text))

\* QAReview.model_validate_json(text): the text validates when its tokens are
\*   { status <s> summary <m> issues <i1> ... <ik> }
\* with <s> exactly PASS or FAIL and <m>, <i1>.. string literals; None when
\* it raises ValueError (anything else).
model_validate_json(text) ==
  LET t == JsonTokens(text)
  IN IF /\ Len(t) >= 7
        /\ t[1] = "{" /\ t[2] = "status" /\ t[3] \in {"PASS", "FAIL"}
        /\ t[4] = "summary" /\ t[5] \in JsonLiterals
        /\ t[6] = "issues" /\ t[Len(t)] = "}"
        /\ \A i \in 1..(Len(t) - 7) : t[6 + i] \in JsonLiterals
       THEN Some([kind |-> "QAReview", status |-> t[3],
                  summary |-> json_loads_str(t[5]),
                  issues |-> [i \in 1..(Len(t) - 7) |-> json_loads_str(t[6 + i])]])
       ELSE None

\* QAReview.model_validate(output) of an output that is neither QAReview nor
\* str: a dict with the keys of QAReview validates when its status is
\* exactly PASS or FAIL; None when it raises ValueError (anything else)
model_validate(output) ==
  IF output.kind = "dict" /\ output.status \in {"PASS", "FAIL"}
    THEN Some([kind |-> "QAReview", status |-> output.status,
               summary |-> output.summary, issues |-> output.issues])
    ELSE None

\* mutant: only a QAReview object is a review; text and dicts are not parsed
_coerce_qa_review_ObjectsOnly(output) ==
  IF output.kind = "QAReview" THEN Some(output) ELSE None

\* _coerce_qa_review(output)
_coerce_qa_review(output) ==
  IF output.kind = "QAReview" THEN Some(output)
  ELSE IF output.kind = "str"
    THEN IF ~Truthy(strip(output.text)) THEN None
         ELSE model_validate_json(strip(output.text))
  ELSE model_validate(output)

\* str(raw_output)
str(raw_output) ==
  IF raw_output.kind = "str" THEN raw_output.text
  ELSE IF raw_output.kind = "NoneType" THEN S("None")
  ELSE IF raw_output.kind = "dict" THEN S("{...}")
  ELSE S("<QAReview>")

\* "- " + issue for each issue
Bullets(issues) == [i \in 1..Len(issues) |-> Cat(L(<<"-", " ">>), issues[i])]

\* "\n- ".join(review.issues)
RECURSIVE JoinBullet(_)
JoinBullet(parts) ==
  IF parts = <<>> THEN EmptyStr
  ELSE IF Len(parts) = 1 THEN parts[1]
  ELSE Cat3(parts[1], Cat(NL, L(<<"-", " ">>)), JoinBullet(Tail(parts)))

\* _format_qa_summary(review, raw_output)
_format_qa_summary(review, raw_output) ==
  IF review = None THEN str(raw_output)
  ELSE LET r == review[1]
           issues_block ==
             IF r.issues # <<>>
               THEN Cat3(NL, L(<<"Issues:">>),
                         Cat3(NL, L(<<"-", " ">>), JoinBullet(r.issues)))
               ELSE EmptyStr
       IN Cat3(L(<<"Status:", " ", r.status>>),
               Cat3(NL, L(<<"Summary:", " ">>), r.summary),
               issues_block)

\* _planner_feedback_from_qa with the issues on one line after the first bullet
_planner_feedback_from_qa_OneBullet(review, raw_output) ==
  IF review = None THEN str(raw_output)
  ELSE LET r == review[1]
           head == Cat3(Cat(L(<<"QA Summary:", " ">>), r.summary), NL,
                        L(<<"Status:", " ", r.status>>))
           RECURSIVE Join(_)
           Join(parts) == IF Len(parts) = 1 THEN parts[1]
                          ELSE Cat3(parts[1], L(<<",", " ">>), Join(Tail(parts)))
       IN IF r.issues = <<>> THEN head
          ELSE Cat3(head, Cat3(NL, L(<<"Outstanding issues:">>), NL),
                    Cat(L(<<"-", " ">>), Join(r.issues)))

\* _planner_feedback_from_qa(review, raw_output)
_planner_feedback_from_qa(review, raw_output) ==
  IF review = None THEN str(raw_output)
  ELSE LET r == review[1]
           head == Cat3(Cat(L(<<"QA Summary:", " ">>), r.summary), NL,
                        L(<<"Status:", " ", r.status>>))
       IN IF r.issues = <<>> THEN head
          ELSE Cat3(head, Cat3(NL, L(<<"Outstanding issues:">>), NL),
                    JoinNL(Bullets(r.issues)))

\* _summarise_qa_output(output, iteration_index)
_summarise_qa_output(output) ==
  LET review == _coerce_qa_review(output)
  IN [review |-> review, summary_text |-> _format_qa_summary(review, output)]

\* ------------------------------------------------------------ prompts
\* `if feedback is not None` in place of `if feedback`
build_planner_instruction_NotNone(goal, fb) ==
  LET base == <<L(<<"Goal:">>), strip(goal)>>
  IN IF fb # None
       THEN JoinNL(base \o <<EmptyStr,
                             L(<<"QA feedback from previous iteration:">>),
                             strip(fb[1]),
                             EmptyStr,
                             L(<<"Revise the plan to address the feedback while keeping the steps minimal.">>)>>)
       ELSE JoinNL(base \o <<EmptyStr,
                             L(<<"Produce a plan that will achieve the goal.">>)>>)

\* build_planner_instruction(goal, feedback=feedback): the lines of the
\* instruction; feedback is None or Some(str)
build_planner_instruction(goal, fb) ==
  LET base == <<L(<<"Goal:">>), strip(goal)>>
  IN IF fb # None /\ Truthy(fb[1])
       THEN JoinNL(base \o <<EmptyStr,
                             L(<<"QA feedback from previous iteration:">>),
                             strip(fb[1]),
                             EmptyStr,
                             L(<<"Revise the plan to address the feedback while keeping the steps minimal.">>)>>)
       ELSE JoinNL(base \o <<EmptyStr,
                             L(<<"Produce a plan that will achieve the goal.">>)>>)

\* build_coder_instruction(plan_summary)
build_coder_instruction(plan_summary) ==
  Cat3(L(<<"Implement the following plan. Create any missing files or directories as needed.">>),
       Cat(NL, NL), strip(plan_summary))

\* build_qa_instruction(plan_summary=, coder_summary=, test_summary=);
\* test_summary is None or Some(str)
build_qa_instruction(plan_summary, coder_summary, test_summary) ==
  LET tests_text ==
        strip(IF test_summary # None /\ Truthy(test_summary[1])
                THEN test_summary[1]
                ELSE L(<<"Tests were not executed in this iteration.">>))
  IN JoinNL(<<L(<<"Review the current workspace for alignment with the plan.">>),
              L(<<"Check correctness, completeness, and whether tests sufficiently cover all cases.">>),
              EmptyStr,
              L(<<"Inputs for review:">>),
              L(<<"Plan:">>), strip(plan_summary), EmptyStr,
              L(<<"Coder summary:">>), strip(coder_summary), EmptyStr,
              L(<<"Test results:">>), tests_text, EmptyStr,
              L(<<"Respond strictly in the JSON format specified in your prompt. Do not add extra commentary outside the JSON object.">>)>>)

\* ------------------------------------------------------------ test adapter
\* " ".join(["pytest", "-q"])
PytestCommand == L(<<"pytest", " ", "-q">>)

TestRunResult(command, exit_code, output) ==
  [command |-> command, exit_code |-> exit_code, output |-> output]

\* _run_pytest, the FileNotFoundError branch
PytestNotFound ==
  TestRunResult(Some(PytestCommand), None,
                Some(L(<<"pytest command not found:", " ", "[Errno 2]">>)))

\* _run_pytest, after process.communicate()
PytestCompleted(returncode, output) ==
  TestRunResult(Some(PytestCommand), Some(returncode), Some(output))

\* _format_test_summary testing the exit code for truth: 0 reads as absent
_format_test_summary_ZeroIsAbsent(tr) ==
  LET command == IF tr.command # None /\ Truthy(tr.command[1])
                   THEN tr.command[1] ELSE S("pytest")
      output == strip(IF tr.output # None /\ Truthy(tr.output[1])
                        THEN tr.output[1] ELSE S("<no output>"))
      head == Cat(L(<<"Command:", " ">>), command)
      tail == Cat3(L(<<"Output:">>), NL, output)
  IN IF tr.exit_code = None \/ tr.exit_code = Some(0)
       THEN JoinNL(<<head,
                     L(<<"Status:", " ", "not run", " ",
                         "(missing command or error before execution)">>),
                     tail>>)
       ELSE JoinNL(<<head,
                     L(<<"Exit code:", " ", ToString(tr.exit_code[1]), " ",
                         "(", "FAIL", ")">>),
                     tail>>)

\* _format_test_summary(result)
_format_test_summary(tr) ==
  LET command == IF tr.command # None /\ Truthy(tr.command[1])
                   THEN tr.command[1] ELSE S("pytest")
      output == strip(IF tr.output # None /\ Truthy(tr.output[1])
                        THEN tr.output[1] ELSE S("<no output>"))
      head == Cat(L(<<"Command:", " ">>), command)
      tail == Cat3(L(<<"Output:">>), NL, output)
  IN IF tr.exit_code = None
       THEN JoinNL(<<head,
                     L(<<"Status:", " ", "not run", " ",
                         "(missing command or error before execution)">>),
                     tail>>)
       ELSE LET status == IF tr.exit_code[1] = 0 THEN "PASS" ELSE "FAIL"
            IN JoinNL(<<head,
                        L(<<"Exit code:", " ", ToString(tr.exit_code[1]), " ",
                            "(", status, ")">>),
                        tail>>)

\* ------------------------------------------------------- result aggregation
IterationResult(plan_summary, coder_summary, qa_summary, qa_review, test_command, test_exit_code, test_output) ==
  [plan_summary |-> plan_summary, coder_summary |-> coder_summary,
   qa_summary |-> qa_summary, qa_review |-> qa_review,
   test_command |-> test_command, test_exit_code |-> test_exit_code,
   test_output |-> test_output]

_build_iteration_result(plan_summary, coder_summary, qa_summary, qa_review, tr) ==
  IterationResult(plan_summary, coder_summary, qa_summary, qa_review,
                  tr.command, tr.exit_code, tr.output)

\* app._format_iteration_test_output(iteration)
_format_iteration_test_output(iteration) ==
  LET command == IF iteration.test_command # None /\ Truthy(iteration.test_command[1])
                   THEN iteration.test_command[1] ELSE S("pytest")
      output == strip(IF iteration.test_output # None /\ Truthy(iteration.test_output[1])
                        THEN iteration.test_output[1] ELSE S("<no output>"))
      exit_code == iteration.test_exit_code
      status == IF exit_code = None THEN <<"NOT RUN">>
                ELSE IF exit_code[1] = 0 THEN <<"PASS">>
                ELSE <<"FAIL", " ", "(", "exit", " ", ToString(exit_code[1]), ")">>
  IN Cat(JoinNL(<<Cat(L(<<"Command:", " ">>), command),
                  L(<<"Status:", " ">> \o status),
                  L(<<"Output:">>),
                  output>>),
         NL)

\* the record put in front of the list
append_InFront(list, item) == <<item>> \o list

\* iterations.append(...)
append(list, item) == Append(list, item)

WorkflowResult(its, ok) == [iterations |-> its, success |-> ok]

\* ------------------------------------------------------------- inputs
Goal == L(<<"add", " ", "function">>)

\* final outputs the planner and the editor return
PlannerOutputs == {S("plan A"), S("plan B")}
CoderOutputs == {S("edited files")}

QAReview(status, summary, issues) ==
  [kind |-> "QAReview", status |-> status, summary |-> summary, issues |-> issues]
Text(t) == [kind |-> "str", text |-> t]
NoneOutput == [kind |-> "NoneType"]

ReviewPass == QAReview("PASS", S("all good"), <<>>)
ReviewFail == QAReview("FAIL", S("gaps"), <<S("missing tests")>>)
TextPass == Text(JoinNL(<<S("looks fine"), L(<<"OVERALL_STATUS:", " ", "PASS">>)>>))
TextNoStatus == Text(S("cannot tell"))
TextEmpty == Text(EmptyStr)

\* final outputs the reviewer returns
ReviewerOutputs ==
  {ReviewPass, ReviewFail, TextPass, TextNoStatus, TextEmpty, NoneOutput}

\* (returncode, combined output) of a pytest process that ran
TestOutcomes == {<<0, S("2 passed")>>, <<1, S("1 failed")>>}

\* random.random() * RATE_LIMIT_JITTER lies in [0, RATE_LIMIT_JITTER): its
\* smallest and largest value in tenths
JitterValues == {0, RATE_LIMIT_JITTER - 1}

\* ------------------------------------------------------------ controller
AgentSteps == {"REQUEST_PLAN", "RUN_EDITOR", "RUN_REVIEW"}

\* no call of run_with_backoff is in progress
BackoffIdle ==
  /\ bo_max_retries = RATE_LIMIT_MAX_RETRIES
  /\ bo_pc = "idle"
  /\ bo_attempt = 0
  /\ bo_delay = 0
  /\ bo_snooze = 0
  /\ bo_calls = <<>>
  /\ bo_sleeps = <<>>
  /\ bo_outcome = None

\* no reviewer output is being resolved
QAIdle ==
  /\ r_output = NoneOutput
  /\ r_pc = "idle"
  /\ r_review = None
  /\ r_status = "None"
  /\ r_feedback = None

\* no test result is being rendered
SummaryIdle ==
  /\ ts_result = TestRunResult(None, None, None)
  /\ ts_pc = "idle"
  /\ ts_summary = None
  /\ ts_cli = None

\* no workspace is being prepared
ScaffoldIdle ==
  /\ ws_files = {}
  /\ ws_uv = "missing"
  /\ ws_pc = "idle"

\* no TaskTimer is in use
TimerIdle ==
  /\ tt_path = None
  /\ tt_file = None
  /\ tt_tasks = <<>>
  /\ tt_now = 0
  /\ tt_last = [op |-> "none", task |-> "none", raised |-> FALSE, seconds |-> 0]

\* run_async is not being called
ConfigIdle ==
  /\ cf_args = [goal |-> None, workspace |-> None, max_iterations |-> None]
  /\ cf_env = [GOAL |-> None, WORKSPACE_DIR |-> None,
               AGENTIC_SWARM_MAX_ITERATIONS |-> None]
  /\ cf_pc = "idle"
  /\ cf_settings = None
  /\ cf_error = "none"

Init ==
  /\ settings \in [goal : {Goal}, max_iterations : 1..MaxSettingsIterations]
  /\ pc = "REQUEST_PLAN"
  /\ gw = "idle"
  /\ iteration_index = 1
  /\ iterations = <<>>
  /\ feedback = None
  /\ success = FALSE
  /\ planner_run = None
  /\ coder_run = None
  /\ test_result = None
  /\ attempt = 0
  /\ delay = 0
  /\ snooze = 0
  /\ result = None
  /\ error = "none"
  /\ abort = "none"
  /\ log = <<>>
  /\ signals = {}
  /\ BackoffIdle
  /\ QAIdle
  /\ SummaryIdle
  /\ ConfigIdle
  /\ ScaffoldIdle
  /\ TimerIdle

\* one entry of the history: what a step sent (event "invoke", the
\* instruction) or got back (event "return", the final output or test result)
Event(step, event, output) ==
  [step |-> step, iteration |-> iteration_index, event |-> event, output |-> output]

\* the number of passes of `for iteration_index in range(1, max_iterations + 1)`
LoopBound == max_iterations

\* mutant: `if status is not False` (an absent decision counts as a pass)
Passed_NotFalse(status) == status # "False"

\* mutant: `if status == "PASS"` (never true of a bool)
Passed_StringCompare(status) == status = "PASS"

\* mutant: `if status in (True, None)`
Passed_OrAbsent(status) == status \in {"True", "None"}

\* `if status is True`
Passed(status) == status = "True"

\* mutant: the assignment sits inside the `if status is False` branch
FeedbackAfter_OnlyOnFail(status, review, output) ==
  IF status = "False" THEN Some(_planner_feedback_from_qa(review, output))
  ELSE feedback

\* feedback = _planner_feedback_from_qa(qa_review, reviewer_run.final_output),
\* the last statement of a loop pass that did not break
FeedbackAfter(status, review, output) ==
  Some(_planner_feedback_from_qa(review, output))

\* one LOGGER record: its level, the text of its message, and the
\* iteration_index the message is formatted with
Signal(level, message) ==
  [level |-> level, message |-> message, iteration |-> iteration_index]

\* a record of _run_agent_with_backoff: its message names no iteration
GatewaySignal(level, message) ==
  [level |-> level, message |-> message, iteration |-> 0]

\* signals holds the records of the decision (`if status is True` ...) and
\* every record of level WARNING or ERROR
Emit(records) == signals' = signals \cup records

\* mutant: one INFO record for every status that is not True
DecisionSignal_AlwaysInfo(status) ==
  IF status = "True" THEN Signal("INFO", "QA passed; stopping workflow")
  ELSE Signal("INFO", "QA reported issues; feeding back to planner")

\* the record the decision emits: LOGGER.info for True and for False,
\* LOGGER.warning for None
DecisionSignal(status) ==
  CASE status = "True" -> Signal("INFO", "QA passed; stopping workflow")
    [] status = "False" ->
         Signal("INFO", "QA reported issues; feeding back to planner")
    [] OTHER ->
         Signal("WARNING", "QA output missing OVERALL_STATUS; assuming more work needed")

\* _run_agent_with_backoff returns or raises: its locals are gone
GatewayExit ==
  /\ attempt' = 0
  /\ delay' = 0
  /\ snooze' = 0

\* the code after the loop: return WorkflowResult(iterations, success)
Return(its, ok) ==
  /\ pc' = "returned"
  /\ gw' = "idle"
  /\ result' = Some(WorkflowResult(its, ok))

\* an exception no handler of execute_workflow catches
Raise(exc) ==
  /\ pc' = "raised"
  /\ gw' = "idle"
  /\ error' = exc
  /\ UNCHANGED result

\* end of a loop pass that did not break
NextIteration(its, ok) ==
  IF iteration_index < LoopBound
    THEN /\ iteration_index' = iteration_index + 1
         /\ pc' = "REQUEST_PLAN"
         /\ gw' = "idle"
         /\ UNCHANGED result
    ELSE /\ Return(its, ok)
         /\ UNCHANGED iteration_index

\* the instruction the controller builds for the step it is at
Instruction(step) ==
  CASE step = "REQUEST_PLAN" -> build_planner_instruction(settings.goal, feedback)
    [] step = "RUN_EDITOR" -> build_coder_instruction(planner_run[1])
    [] step = "RUN_REVIEW" ->
         build_qa_instruction(planner_run[1], coder_run[1],
                              Some(_format_test_summary(test_result[1])))

\* _run_agent_with_backoff is entered: delay and attempt are initialised and
\* the first Runner.run is awaited
\* InvokeAgent while an earlier call may still be awaited
InvokeAgent_NotAwaited ==
  /\ UNCHANGED <<backoff_vars, qa_vars, summary_vars, config_vars,
                 scaffold_vars, timer_vars>>
  /\ UNCHANGED signals
  /\ pc \in AgentSteps /\ gw \in {"idle", "running"}
  /\ gw' = "running"
  /\ attempt' = 1
  /\ delay' = RATE_LIMIT_INITIAL_DELAY
  /\ snooze' = 0
  /\ log' = Append(log, Event(pc, "invoke", Instruction(pc)))
  /\ UNCHANGED <<settings, pc, iteration_index, iterations, feedback, success,
                 planner_run, coder_run, test_result, result, error, abort>>

\* InvokeAgent with one budget for the workflow: a rate limit met in an earlier
\* call is counted as an attempt of this one
InvokeAgent_CountsEarlier ==
  /\ UNCHANGED <<backoff_vars, qa_vars, summary_vars, config_vars,
                 scaffold_vars, timer_vars>>
  /\ UNCHANGED signals
  /\ pc \in AgentSteps /\ gw = "idle"
  /\ gw' = "running"
  /\ attempt' = IF GatewaySignal("WARNING", "Rate limit hit") \in signals
                  THEN 2 ELSE 1
  /\ delay' = IF GatewaySignal("WARNING", "Rate limit hit") \in signals
                THEN RATE_LIMIT_INITIAL_DELAY * RATE_LIMIT_BACKOFF_MULTIPLIER
                ELSE RATE_LIMIT_INITIAL_DELAY
  /\ snooze' = 0
  /\ log' = Append(log, Event(pc, "invoke", Instruction(pc)))
  /\ UNCHANGED <<settings, pc, iteration_index, iterations, feedback, success,
                 planner_run, coder_run, test_result, result, error, abort>>

InvokeAgent ==
  /\ UNCHANGED <<backoff_vars, qa_vars, summary_vars, config_vars,
                 scaffold_vars, timer_vars>>
  /\ UNCHANGED signals
  /\ pc \in AgentSteps /\ gw = "idle"
  /\ gw' = "running"
  /\ attempt' = 1
  /\ delay' = RATE_LIMIT_INITIAL_DELAY
  /\ snooze' = 0
  /\ log' = Append(log, Event(pc, "invoke", Instruction(pc)))
  /\ UNCHANGED <<settings, pc, iteration_index, iterations, feedback, success,
                 planner_run, coder_run, test_result, result, error, abort>>

\* Runner.run raises RateLimitError
RateLimited ==
  /\ UNCHANGED <<backoff_vars, qa_vars, summary_vars, config_vars,
                 scaffold_vars, timer_vars>>
  /\ pc \in AgentSteps /\ gw = "running"
  /\ IF attempt >= RATE_LIMIT_MAX_RETRIES
       THEN /\ Emit({GatewaySignal("ERROR", "Rate limit persisted")})
            /\ Raise("RateLimitError")
            /\ GatewayExit
       ELSE /\ \E jitter \in JitterValues : snooze' = delay + jitter
            /\ Emit({GatewaySignal("WARNING", "Rate limit hit")})
            /\ gw' = "sleeping"
            /\ UNCHANGED <<pc, result, error, attempt, delay>>
  /\ UNCHANGED <<settings, iteration_index, iterations, feedback, success,
                 planner_run, coder_run, test_result, abort, log>>

\* asyncio.sleep(snooze) is over: delay *= multiplier, next attempt
SleepDone ==
  /\ UNCHANGED <<backoff_vars, qa_vars, summary_vars, config_vars,
                 scaffold_vars, timer_vars>>
  /\ UNCHANGED signals
  /\ gw = "sleeping"
  /\ delay' = delay * RATE_LIMIT_BACKOFF_MULTIPLIER
  /\ attempt' = attempt + 1
  /\ gw' = "running"
  /\ snooze' = 0
  /\ UNCHANGED <<settings, pc, iteration_index, iterations, feedback, success,
                 planner_run, coder_run, test_result, result, error, abort, log>>

\* Runner.run raises anything but RateLimitError and MaxTurnsExceeded
AgentError ==
  /\ UNCHANGED <<backoff_vars, qa_vars, summary_vars, config_vars,
                 scaffold_vars, timer_vars>>
  /\ UNCHANGED signals
  /\ pc \in AgentSteps /\ gw = "running"
  /\ Raise("AgentError")
  /\ GatewayExit
  /\ UNCHANGED <<settings, iteration_index, iterations, feedback, success,
                 planner_run, coder_run, test_result, abort, log>>

\* mutant: the editor's handler records the planner's placeholder, not the plan
PartialResult_NoPlan(step) ==
  CASE step = "REQUEST_PLAN" ->
         IterationResult(L(<<"Planner exceeded max turns">>), EmptyStr, EmptyStr,
                         None, None, None, None)
    [] step = "RUN_EDITOR" ->
         IterationResult(L(<<"Planner exceeded max turns">>),
                         L(<<"Coder exceeded max turns">>), EmptyStr,
                         None, None, None, None)
    [] step = "RUN_REVIEW" ->
         _build_iteration_result(planner_run[1], coder_run[1],
                                 L(<<"QA exceeded max turns">>), None, test_result[1])

\* mutant: the reviewer's handler is a copy of the editor's, without test fields
PartialResult_NoTests(step) ==
  CASE step = "REQUEST_PLAN" ->
         IterationResult(L(<<"Planner exceeded max turns">>), EmptyStr, EmptyStr,
                         None, None, None, None)
    [] step = "RUN_EDITOR" ->
         IterationResult(planner_run[1], L(<<"Coder exceeded max turns">>), EmptyStr,
                         None, None, None, None)
    [] step = "RUN_REVIEW" ->
         IterationResult(planner_run[1], coder_run[1],
                         L(<<"QA exceeded max turns">>), None, None, None, None)

\* the editor's handler filling the test fields from the test_result at hand
PartialResult_StaleTests(step) ==
  CASE step = "REQUEST_PLAN" ->
         IterationResult(L(<<"Planner exceeded max turns">>), EmptyStr, EmptyStr,
                         None, None, None, None)
    [] step = "RUN_EDITOR" ->
         IF test_result = None
           THEN IterationResult(planner_run[1], L(<<"Coder exceeded max turns">>),
                                EmptyStr, None, None, None, None)
           ELSE _build_iteration_result(planner_run[1],
                                        L(<<"Coder exceeded max turns">>),
                                        EmptyStr, None, test_result[1])
    [] step = "RUN_REVIEW" ->
         _build_iteration_result(planner_run[1], coder_run[1],
                                 L(<<"QA exceeded max turns">>), None, test_result[1])

\* the record appended by the `except MaxTurnsExceeded` handler of a step
PartialResult(step) ==
  CASE step = "REQUEST_PLAN" ->
         IterationResult(L(<<"Planner exceeded max turns">>), EmptyStr, EmptyStr,
                         None, None, None, None)
    [] step = "RUN_EDITOR" ->
         IterationResult(planner_run[1], L(<<"Coder exceeded max turns">>), EmptyStr,
                         None, None, None, None)
    [] step = "RUN_REVIEW" ->
         _build_iteration_result(planner_run[1], coder_run[1],
                                 L(<<"QA exceeded max turns">>), None, test_result[1])

\* Runner.run raises MaxTurnsExceeded: append the partial record, break
MaxTurnsExceeded ==
  /\ UNCHANGED <<backoff_vars, qa_vars, summary_vars, config_vars,
                 scaffold_vars, timer_vars>>
  /\ pc \in AgentSteps /\ gw = "running"
  /\ LET its == append(iterations, PartialResult(pc))
     IN /\ iterations' = its
        /\ Return(its, success)
  /\ abort' = pc
  /\ Emit({Signal("ERROR", "exceeded max turns")})
  /\ GatewayExit
  /\ UNCHANGED <<settings, iteration_index, feedback, success, planner_run,
                 coder_run, test_result, error, log>>

PlannerReturns(out) ==
  /\ UNCHANGED <<backoff_vars, qa_vars, summary_vars, config_vars,
                 scaffold_vars, timer_vars>>
  /\ UNCHANGED signals
  /\ pc = "REQUEST_PLAN" /\ gw = "running"
  /\ planner_run' = Some(out)
  /\ pc' = "RUN_EDITOR"
  /\ gw' = "idle"
  /\ log' = Append(log, Event(pc, "return", out))
  /\ GatewayExit
  /\ UNCHANGED <<settings, iteration_index, iterations, feedback, success,
                 coder_run, test_result, result, error, abort>>

\* CoderReturns going on to the review without the tests
CoderReturns_SkipTests(out) ==
  /\ UNCHANGED <<backoff_vars, qa_vars, summary_vars, config_vars,
                 scaffold_vars, timer_vars>>
  /\ UNCHANGED signals
  /\ pc = "RUN_EDITOR" /\ gw = "running"
  /\ coder_run' = Some(out)
  /\ pc' = "RUN_REVIEW"
  /\ gw' = "idle"
  /\ log' = Append(log, Event(pc, "return", out))
  /\ GatewayExit
  /\ UNCHANGED <<settings, iteration_index, iterations, feedback, success,
                 planner_run, test_result, result, error, abort>>

CoderReturns(out) ==
  /\ UNCHANGED <<backoff_vars, qa_vars, summary_vars, config_vars,
                 scaffold_vars, timer_vars>>
  /\ UNCHANGED signals
  /\ pc = "RUN_EDITOR" /\ gw = "running"
  /\ coder_run' = Some(out)
  /\ pc' = "RUN_TESTS"
  /\ gw' = "idle"
  /\ log' = Append(log, Event(pc, "return", out))
  /\ GatewayExit
  /\ UNCHANGED <<settings, iteration_index, iterations, feedback, success,
                 planner_run, test_result, result, error, abort>>

\* TestsLaunched returning at once, with the returncode a running process has
TestsLaunched_NotAwaited ==
  /\ UNCHANGED <<backoff_vars, qa_vars, summary_vars, config_vars,
                 scaffold_vars, timer_vars>>
  /\ UNCHANGED signals
  /\ pc = "RUN_TESTS" /\ gw = "idle"
  /\ test_result' = Some(TestRunResult(Some(PytestCommand), None, Some(EmptyStr)))
  /\ pc' = "RUN_REVIEW"
  /\ log' = Append(log, Event(pc, "invoke", PytestCommand))
  /\ UNCHANGED <<settings, gw, iteration_index, iterations, feedback, success,
                 planner_run, coder_run, attempt, delay, snooze,
                 result, error, abort>>

\* asyncio.create_subprocess_exec succeeds: the pytest process runs
TestsLaunched ==
  /\ UNCHANGED <<backoff_vars, qa_vars, summary_vars, config_vars,
                 scaffold_vars, timer_vars>>
  /\ UNCHANGED signals
  /\ pc = "RUN_TESTS" /\ gw = "idle"
  /\ gw' = "running"
  /\ log' = Append(log, Event(pc, "invoke", PytestCommand))
  /\ UNCHANGED <<settings, pc, iteration_index, iterations, feedback, success,
                 planner_run, coder_run, test_result,
                 attempt, delay, snooze, result, error, abort>>

\* asyncio.create_subprocess_exec raises FileNotFoundError
TestsNotFound ==
  /\ UNCHANGED <<backoff_vars, qa_vars, summary_vars, config_vars,
                 scaffold_vars, timer_vars>>
  /\ pc = "RUN_TESTS" /\ gw = "idle"
  /\ test_result' = Some(PytestNotFound)
  /\ Emit({Signal("ERROR", "pytest command not found"),
           Signal("WARNING", "pytest was skipped")})
  /\ pc' = "RUN_REVIEW"
  /\ log' = Append(log, Event(pc, "return", PytestNotFound))
  /\ UNCHANGED <<settings, gw, iteration_index, iterations, feedback, success,
                 planner_run, coder_run, attempt, delay, snooze,
                 result, error, abort>>

\* asyncio.create_subprocess_exec raises another OSError (PermissionError, ...)
TestsLaunchError ==
  /\ UNCHANGED <<backoff_vars, qa_vars, summary_vars, config_vars,
                 scaffold_vars, timer_vars>>
  /\ UNCHANGED signals
  /\ pc = "RUN_TESTS" /\ gw = "idle"
  /\ Raise("OSError")
  /\ UNCHANGED <<settings, iteration_index, iterations, feedback, success,
                 planner_run, coder_run, test_result,
                 attempt, delay, snooze, abort, log>>

\* process.communicate() returns
TestsCompleted(outcome) ==
  /\ UNCHANGED <<backoff_vars, qa_vars, summary_vars, config_vars,
                 scaffold_vars, timer_vars>>
  /\ UNCHANGED signals
  /\ pc = "RUN_TESTS" /\ gw = "running"
  /\ test_result' = Some(PytestCompleted(outcome[1], outcome[2]))
  /\ pc' = "RUN_REVIEW"
  /\ gw' = "idle"
  /\ log' = Append(log, Event(pc, "return", PytestCompleted(outcome[1], outcome[2])))
  /\ UNCHANGED <<settings, iteration_index, iterations, feedback, success,
                 planner_run, coder_run, attempt, delay, snooze,
                 result, error, abort>>

\* the reviewer returns: summarise, append the record, decide
ReviewerReturns(out) ==
  /\ UNCHANGED <<backoff_vars, qa_vars, summary_vars, config_vars,
                 scaffold_vars, timer_vars>>
  /\ pc = "RUN_REVIEW" /\ gw = "running"
  /\ LET s == _summarise_qa_output(out)
         its == append(iterations,
                       _build_iteration_result(planner_run[1], coder_run[1],
                                               s.summary_text, s.review,
                                               test_result[1]))
         status == _qa_passed(s.review, out)
     IN /\ iterations' = its
        /\ CASE status = "raises" ->
                  /\ Raise("AttributeError")
                  /\ UNCHANGED <<iteration_index, feedback, success, signals>>
             [] status # "raises" /\ Passed(status) ->
                  /\ Emit({DecisionSignal(status)})
                  /\ success' = TRUE
                  /\ Return(its, TRUE)
                  /\ UNCHANGED <<iteration_index, feedback, error>>
             [] OTHER ->
                  /\ Emit({DecisionSignal(status)})
                  /\ feedback' = FeedbackAfter(status, s.review, out)
                  /\ NextIteration(its, success)
                  /\ UNCHANGED <<success, error>>
  /\ log' = Append(log, Event(pc, "return", out))
  /\ GatewayExit
  /\ UNCHANGED <<settings, planner_run, coder_run, test_result, abort>>

Next ==
  \/ InvokeAgent
  \/ RateLimited
  \/ SleepDone
  \/ AgentError
  \/ MaxTurnsExceeded
  \/ \E out \in PlannerOutputs : PlannerReturns(out)
  \/ \E out \in CoderOutputs : CoderReturns(out)
  \/ TestsLaunched
  \/ TestsNotFound
  \/ TestsLaunchError
  \/ \E outcome \in TestOutcomes : TestsCompleted(outcome)
  \/ \E out \in ReviewerOutputs : ReviewerReturns(out)

Spec == Init /\ [][Next]_vars

\* ------------------------------------------- backoff.run_with_backoff
\* execute_workflow is not running
WorkflowIdle ==
  /\ settings = [goal |-> Goal, max_iterations |-> max_iterations]
  /\ pc = "idle"
  /\ gw = "idle"
  /\ iteration_index = 1
  /\ iterations = <<>>
  /\ feedback = None
  /\ success = FALSE
  /\ planner_run = None
  /\ coder_run = None
  /\ test_result = None
  /\ attempt = 0
  /\ delay = 0
  /\ snooze = 0
  /\ result = None
  /\ error = "none"
  /\ abort = "none"
  /\ log = <<>>
  /\ signals = {}

\* what Runner.run returns (the RunResult), and what it raises other than
\* RateLimitError
RunResults == {"run result A", "run result B"}
RunFailures == {"MaxTurnsExceeded", "APIConnectionError"}

\* random.random() * RATE_LIMIT_JITTER in tenths: every value of [0, 0.5)
JitterRange == 0..(RATE_LIMIT_JITTER - 1)

RunReturned(value) == [kind |-> "returned", value |-> value]
RunRaised(exc) == [kind |-> "raised", value |-> exc]

\* mutant: `except Exception`
Retried_AnyException(exc) == TRUE

\* `except RateLimitError`
Retried(exc) == exc = "RateLimitError"

\* mutant: `if attempt > max_retries`
Exhausted_OffByOne(n, max_retries) == n > max_retries

\* max_retries counting the retries, not the attempts
Exhausted_CountsRetries(n, max_retries) == n - 1 >= max_retries

\* `if attempt >= max_retries`
Exhausted(n, max_retries) == n >= max_retries

\* mutant: the delay is multiplied before the sleep is computed
Snooze_AfterMultiply(d, jitter) == d * RATE_LIMIT_BACKOFF_MULTIPLIER + jitter

\* snooze = delay + random.random() * RATE_LIMIT_JITTER
Snooze(d, jitter) == d + jitter

\* mutant: `delay += RATE_LIMIT_BACKOFF_MULTIPLIER`
NextDelay_Additive(d) == d + RATE_LIMIT_BACKOFF_MULTIPLIER

\* delay *= RATE_LIMIT_BACKOFF_MULTIPLIER
NextDelay(d) == d * RATE_LIMIT_BACKOFF_MULTIPLIER

BackoffInit ==
  /\ WorkflowIdle
  /\ QAIdle
  /\ SummaryIdle
  /\ ConfigIdle
  /\ ScaffoldIdle
  /\ TimerIdle
  /\ bo_max_retries \in 1..RATE_LIMIT_MAX_RETRIES
  /\ bo_pc = "entry"
  /\ bo_attempt = 0
  /\ bo_delay = 0
  /\ bo_snooze = 0
  /\ bo_calls = <<>>
  /\ bo_sleeps = <<>>
  /\ bo_outcome = None

\* delay = RATE_LIMIT_INITIAL_DELAY; attempt = 0; first pass of `while True`:
\* attempt += 1 and Runner.run is awaited
BackoffEnter ==
  /\ bo_pc = "entry"
  /\ bo_delay' = RATE_LIMIT_INITIAL_DELAY
  /\ bo_attempt' = 1
  /\ bo_pc' = "running"
  /\ UNCHANGED <<bo_max_retries, bo_snooze, bo_calls, bo_sleeps, bo_outcome>>
  /\ UNCHANGED <<workflow_vars, qa_vars, summary_vars, config_vars,
                 scaffold_vars, timer_vars>>

\* `return await Runner.run(...)`
RunReturns(value) ==
  /\ bo_pc = "running"
  /\ bo_calls' = Append(bo_calls, RunReturned(value))
  /\ bo_outcome' = Some(RunReturned(value))
  /\ bo_pc' = "done"
  /\ UNCHANGED <<bo_max_retries, bo_attempt, bo_delay, bo_snooze, bo_sleeps>>
  /\ UNCHANGED <<workflow_vars, qa_vars, summary_vars, config_vars,
                 scaffold_vars, timer_vars>>

\* Runner.run raises exc: caught and slept on when it is a rate limit within
\* the budget, raised to the caller otherwise
RunRaises(exc) ==
  /\ bo_pc = "running"
  /\ bo_calls' = Append(bo_calls, RunRaised(exc))
  /\ IF Retried(exc) /\ ~Exhausted(bo_attempt, bo_max_retries)
       THEN /\ \E jitter \in JitterRange : bo_snooze' = Snooze(bo_delay, jitter)
            /\ bo_sleeps' = Append(bo_sleeps, bo_snooze')
            /\ bo_pc' = "sleeping"
            /\ UNCHANGED bo_outcome
       ELSE /\ bo_outcome' = Some(RunRaised(exc))
            /\ bo_pc' = "done"
            /\ UNCHANGED <<bo_snooze, bo_sleeps>>
  /\ UNCHANGED <<bo_max_retries, bo_attempt, bo_delay>>
  /\ UNCHANGED <<workflow_vars, qa_vars, summary_vars, config_vars,
                 scaffold_vars, timer_vars>>

\* asyncio.sleep(snooze) is over: delay *= multiplier; next pass of the loop:
\* attempt += 1 and Runner.run is awaited
BackoffSleepDone ==
  /\ bo_pc = "sleeping"
  /\ bo_delay' = NextDelay(bo_delay)
  /\ bo_attempt' = bo_attempt + 1
  /\ bo_pc' = "running"
  /\ UNCHANGED <<bo_max_retries, bo_snooze, bo_calls, bo_sleeps, bo_outcome>>
  /\ UNCHANGED <<workflow_vars, qa_vars, summary_vars, config_vars,
                 scaffold_vars, timer_vars>>

BackoffNext ==
  \/ BackoffEnter
  \/ \E value \in RunResults : RunReturns(value)
  \/ \E exc \in RunFailures \cup {"RateLimitError"} : RunRaises(exc)
  \/ BackoffSleepDone

SpecBackoff == BackoffInit /\ [][BackoffNext]_vars

\* run_with_backoff called with any max_retries, also one that leaves no retry
BackoffInitAny ==
  /\ WorkflowIdle
  /\ QAIdle
  /\ SummaryIdle
  /\ ConfigIdle
  /\ ScaffoldIdle
  /\ TimerIdle
  /\ bo_max_retries \in (0 - 1)..RATE_LIMIT_MAX_RETRIES
  /\ bo_pc = "entry"
  /\ bo_attempt = 0
  /\ bo_delay = 0
  /\ bo_snooze = 0
  /\ bo_calls = <<>>
  /\ bo_sleeps = <<>>
  /\ bo_outcome = None

SpecBackoffAny == BackoffInitAny /\ [][BackoffNext]_vars

\* ------------------------------------------------ resolving a QA output
\* the lines reviewer prose is made of: prose, an empty line, lines that only
\* resemble a status line, status lines, and status lines in another letter
\* case, with emphasis and with blanks
PlainPass == <<"OVERALL_STATUS:", " ", "PASS">>
PlainFail == <<"OVERALL_STATUS:", " ", "FAIL">>
ProseLines ==
  {<<"looks", " ", "fine">>,
   <<>>,
   <<"OVERALL_STATUS:", " ", "PASS", " ", "once", " ", "fixed">>,
   <<"status:", " ", "FAIL">>,
   <<"Result:", " ", "OVERALL_STATUS:", " ", "PASS">>,
   <<"OVERALL_STATUS:", " ", "PASS", ".">>,
   <<"OVERALL_STATUS:", " ", "PASS", "ED">>}
PassLines == {PlainPass, <<"*", "*", "overall_status:", " ", "pass", "*", "*">>}
FailLines == {PlainFail, <<" ", "Overall_Status:", "Fail", " ">>}
QALines == ProseLines \cup PassLines \cup FailLines

\* reviewer texts of up to MaxQALines lines
QATexts == UNION {[1..n -> QALines] : n \in 1..MaxQALines}

\* " " * blanks + "*" * stars
Pad(blanks, stars) == [i \in 1..(blanks + stars) |-> IF i <= blanks THEN " " ELSE "*"]

\* one status line: blanks and asterisks around the key and the word, in the
\* order the pattern allows
StatusLine(lead, key, gap, word, trail) ==
  Pad(lead[1], lead[2]) \o Pad(lead[3], 0) \o <<key>> \o Pad(gap, 0)
    \o <<word>> \o Pad(trail[1], trail[2]) \o Pad(trail[3], 0)

Paddings == {<<0, 0, 0>>, <<0, 2, 0>>, <<1, 2, 1>>, <<0, 1, 1>>}
KeyVariants == {"OVERALL_STATUS:", "overall_status:", "Overall_Status:"}
PassVariants == {"PASS", "pass", "Pass"}
FailVariants == {"FAIL", "fail", "Fail"}

VariantLines(words) ==
  {StatusLine(lead, key, gap, word, trail) :
     lead \in Paddings, key \in KeyVariants, gap \in 0..2,
     word \in words, trail \in Paddings}

\* the parts a structured review is made of
Summaries ==
  {S("all good"),
   << <<"gaps">>, PlainPass >>,
   << <<"fine">>, PlainFail >>}
IssueLists ==
  {<<>>, <<S("missing tests")>>, << << <<"later">>, PlainPass >> >>,
   <<S("missing tests"), S("no docs")>>}

Dict(status, summary, issues) ==
  [kind |-> "dict", status |-> status, summary |-> summary, issues |-> issues]

\* the text of a QAReview as JSON, on one line or on three
JsonText(status, summary, issues, lines) ==
  IF lines = 1
    THEN L(<<"{", " ", "status", " ", status, " ", "summary", " ", summary,
             " ", "issues">> \o issues \o <<" ", "}">>)
    ELSE << <<"{">>,
            <<" ", "status", " ", status, " ", "summary", " ", summary,
              " ", "issues">> \o issues,
            <<"}">> >>

JsonTexts(status) ==
  {JsonText(status, summary, issues, lines) :
     summary \in JsonLiterals,
     issues \in {<<>>, <<"'gaps\\nOVERALL_STATUS: PASS'">>},
     lines \in {1, 3}}

\* outputs that are a structured review of this status
StructuredOutputs(status) ==
  {QAReview(status, summary, issues) : summary \in Summaries, issues \in IssueLists}
    \cup {Dict(status, summary, issues) : summary \in Summaries, issues \in IssueLists}
    \cup {Text(t) : t \in JsonTexts(status)}

\* outputs that are no review: a dict or JSON text with a status that is
\* neither PASS nor FAIL
InvalidOutputs ==
  {Dict("pass", S("all good"), <<>>), Text(JsonText("pass", "'all good'", <<>>, 1))}

\* the final outputs a reviewer run can hold
ResolverInputs ==
  StructuredOutputs("PASS") \cup StructuredOutputs("FAIL") \cup InvalidOutputs
    \cup {Text(t) : t \in QATexts}
    \cup {Text(<<line>>) : line \in VariantLines(PassVariants \cup FailVariants)}
    \cup {NoneOutput}

QAInit ==
  /\ WorkflowIdle
  /\ BackoffIdle
  /\ SummaryIdle
  /\ ConfigIdle
  /\ ScaffoldIdle
  /\ TimerIdle
  /\ r_output \in ResolverInputs
  /\ r_pc = "coerce"
  /\ r_review = None
  /\ r_status = "None"
  /\ r_feedback = None

\* qa_review, qa_summary_text = _summarise_qa_output(reviewer_run.final_output)
QACoerce ==
  /\ r_pc = "coerce"
  /\ r_review' = _coerce_qa_review(r_output)
  /\ r_pc' = "decide"
  /\ UNCHANGED <<r_output, r_status, r_feedback>>
  /\ UNCHANGED <<workflow_vars, backoff_vars, summary_vars, config_vars,
                 scaffold_vars, timer_vars>>

\* status = _qa_passed(qa_review, reviewer_run.final_output)
QADecide ==
  /\ r_pc = "decide"
  /\ r_status' = _qa_passed(r_review, r_output)
  /\ r_pc' = IF r_status' = "raises" THEN "raised" ELSE "done"
  /\ UNCHANGED <<r_output, r_review, r_feedback>>
  /\ UNCHANGED <<workflow_vars, backoff_vars, summary_vars, config_vars,
                 scaffold_vars, timer_vars>>

\* feedback = _planner_feedback_from_qa(qa_review, reviewer_run.final_output),
\* applied to every output whose decision was resolved
QAFeedback ==
  /\ r_pc = "done"
  /\ r_feedback = None
  /\ r_feedback' = Some(_planner_feedback_from_qa(r_review, r_output))
  /\ UNCHANGED <<r_output, r_pc, r_review, r_status>>
  /\ UNCHANGED <<workflow_vars, backoff_vars, summary_vars, config_vars,
                 scaffold_vars, timer_vars>>

QANext == QACoerce \/ QADecide \/ QAFeedback

SpecQA == QAInit /\ [][QANext]_vars

\* --------------------------------------------- rendering a test result
\* One TestRunResult is rendered twice: by _format_test_summary for the
\* reviewer's instruction, and, once it is part of an IterationResult, by
\* _format_iteration_test_output for the CLI.

\* process.returncode: 0, a test failure, a usage error, no tests collected,
\* a shell's "not found", a process killed by signal 9
ReturnCodes == {0, 1, 2, 5, 127, -9}

TestCommands == {None, Some(EmptyStr), Some(PytestCommand)}
ExitCodes == {None} \cup {Some(c) : c \in ReturnCodes}
\* captured output: none, empty, a report, a report that quotes a status line
\* of the other kind, blank lines around a report
TestOutputs ==
  {None, Some(EmptyStr), Some(S("2 passed")), Some(S("1 failed")),
   Some(L(<<"Exit code:", " ", "0", " ", "(", "PASS", ")">>)),
   Some(L(<<"Exit code:", " ", "1", " ", "(", "FAIL", ")">>)),
   Some(<< <<>>, <<"Status:", " ", "not run">>, <<>> >>)}

SummaryInit ==
  /\ WorkflowIdle
  /\ BackoffIdle
  /\ QAIdle
  /\ ConfigIdle
  /\ ScaffoldIdle
  /\ TimerIdle
  /\ ts_result \in {TestRunResult(c, e, o) :
                      c \in TestCommands, e \in ExitCodes, o \in TestOutputs}
  /\ ts_pc = "format"
  /\ ts_summary = None
  /\ ts_cli = None

\* test_summary=_format_test_summary(test_result), for the reviewer
FormatSummary ==
  /\ ts_pc = "format"
  /\ ts_summary' = Some(_format_test_summary(ts_result))
  /\ ts_pc' = "render"
  /\ UNCHANGED <<ts_result, ts_cli>>
  /\ UNCHANGED <<workflow_vars, backoff_vars, qa_vars, config_vars,
                 scaffold_vars, timer_vars>>

\* format_cli_output renders the IterationResult built from the test result
RenderIteration ==
  /\ ts_pc = "render"
  /\ ts_cli' = Some(_format_iteration_test_output(
                      _build_iteration_result(S("plan"), S("edit"), S("review"),
                                              None, ts_result)))
  /\ ts_pc' = "done"
  /\ UNCHANGED <<ts_result, ts_summary>>
  /\ UNCHANGED <<workflow_vars, backoff_vars, qa_vars, config_vars,
                 scaffold_vars, timer_vars>>

SummaryNext == FormatSummary \/ RenderIteration

SpecSummary == SummaryInit /\ [][SummaryNext]_vars

\* -------------------------------------------------- resolving the settings
\* app.run_async calls config.load_settings and then awaits execute_workflow.
\* An environment value is None or Some text; the text of
\* AGENTIC_SWARM_MAX_ITERATIONS is a sequence of characters, a path is the
\* sequence of its components: "/" first for an absolute path, "~" first for
\* one in the home directory, any other for one relative to the working
\* directory. Creating the workspace directory is taken to succeed.

_PROJECT_ROOT == <<"/", "opt", "agentic-swarm-coder">>

\* workspace.expanduser().resolve(): "~" is the home directory, a relative
\* path starts at the working directory (here the project's), and every ".."
\* takes the component before it away
Resolve(path) ==
  LET Home == <<"/", "home", "user">>
      Cwd == _PROJECT_ROOT
      absolute == IF path # <<>> /\ Head(path) = "/" THEN path
                  ELSE IF path # <<>> /\ Head(path) = "~" THEN Home \o Tail(path)
                  ELSE Cwd \o path
      RECURSIVE FoldDots(_, _)
      FoldDots(done, rest) ==
        IF rest = <<>> THEN done
        ELSE IF Head(rest) = ".."
          THEN FoldDots(IF Len(done) > 1 THEN SubSeq(done, 1, Len(done) - 1)
                        ELSE done, Tail(rest))
          ELSE FoldDots(Append(done, Head(rest)), Tail(rest))
  IN FoldDots(<<"/">>, Tail(absolute))

\* workspace.is_relative_to(root)
is_relative_to(path, root) ==
  Len(path) >= Len(root) /\ SubSeq(path, 1, Len(root)) = root

\* what a function of config.py gives: a value, or ConfigurationError
Returns(value) == [raised |-> FALSE, value |-> Some(value)]
ConfigurationError == [raised |-> TRUE, value |-> None]

\* _resolve_workspace(base_dir), with _validate_workspace_location
_resolve_workspace(base_dir, env) ==
  LET env_path == env.WORKSPACE_DIR
      chosen == IF base_dir # None THEN base_dir
                ELSE IF env_path # None /\ env_path[1] # <<>> THEN env_path
                ELSE None
  IN IF chosen = None THEN ConfigurationError
     ELSE IF is_relative_to(Resolve(chosen[1]), _PROJECT_ROOT) THEN ConfigurationError
     ELSE Returns(Resolve(chosen[1]))

\* int(env_value): blanks around, one sign, then digits only; None for a
\* ValueError
int(cs) ==
  LET DigitChars == <<"0", "1", "2", "3", "4", "5", "6", "7", "8", "9">>
      IsDigit(c) == \E d \in 1..10 : DigitChars[d] = c
      DigitValue(c) == (CHOOSE d \in 1..10 : DigitChars[d] = c) - 1
      RECURSIVE DigitsValue(_)
      DigitsValue(ds) ==
        IF ds = <<>> THEN 0
        ELSE 10 * DigitsValue(SubSeq(ds, 1, Len(ds) - 1)) + DigitValue(ds[Len(ds)])
      RECURSIVE TrimChars(_)
      TrimChars(xs) ==
        IF xs # <<>> /\ Head(xs) = " " THEN TrimChars(Tail(xs))
        ELSE IF xs # <<>> /\ xs[Len(xs)] = " "
          THEN TrimChars(SubSeq(xs, 1, Len(xs) - 1))
        ELSE xs
      t == TrimChars(cs)
      signed == t # <<>> /\ Head(t) \in {"+", "-"}
      body == IF signed THEN Tail(t) ELSE t
  IN IF body = <<>> \/ \E n \in 1..Len(body) : ~IsDigit(body[n]) THEN None
     ELSE IF signed /\ Head(t) = "-" THEN Some(0 - DigitsValue(body))
     ELSE Some(DigitsValue(body))

\* _resolve_iterations without the tests `< 1`
_resolve_iterations_Unchecked(cli_value, env) ==
  LET env_value == env.AGENTIC_SWARM_MAX_ITERATIONS
  IN IF cli_value # None THEN Returns(cli_value[1])
     ELSE IF env_value # None /\ env_value[1] # <<>>
       THEN IF int(env_value[1]) = None THEN ConfigurationError
            ELSE Returns(int(env_value[1])[1])
     ELSE Returns(5)

\* _resolve_iterations(cli_value)
_resolve_iterations(cli_value, env) ==
  LET env_value == env.AGENTIC_SWARM_MAX_ITERATIONS
  IN IF cli_value # None
       THEN IF cli_value[1] < 1 THEN ConfigurationError ELSE Returns(cli_value[1])
     ELSE IF env_value # None /\ env_value[1] # <<>>
       THEN IF int(env_value[1]) = None THEN ConfigurationError
            ELSE IF int(env_value[1])[1] < 1 THEN ConfigurationError
            ELSE Returns(int(env_value[1])[1])
     ELSE Returns(5)

RuntimeSettings(goal, workspace, count) ==
  [goal |-> goal, workspace |-> workspace, max_iterations |-> count]

\* load_settings(goal, workspace, max_iterations=max_iterations)
load_settings(args, env) ==
  LET resolved_goal == IF args.goal # None /\ Truthy(args.goal[1])
                         THEN args.goal ELSE env.GOAL
      resolved_workspace == _resolve_workspace(args.workspace, env)
      resolved_iterations == _resolve_iterations(args.max_iterations, env)
  IN IF resolved_goal = None \/ ~Truthy(resolved_goal[1]) THEN ConfigurationError
     ELSE IF resolved_workspace.raised THEN ConfigurationError
     ELSE IF resolved_iterations.raised THEN ConfigurationError
     ELSE Returns(RuntimeSettings(resolved_goal[1], resolved_workspace.value[1],
                                  resolved_iterations.value[1]))

\* paths outside the project, and paths that lead into it: a relative one,
\* the project directory itself, one that comes back through ".."
OutsidePaths == {<<"/", "tmp", "out">>, <<"~", "work">>}
InsidePaths ==
  {<<"generated">>, _PROJECT_ROOT,
   <<"/", "tmp", "..", "opt", "agentic-swarm-coder", "out">>}

\* texts int() accepts, and texts it does not
IntegerTexts ==
  {<<"0">>, <<"-", "2">>, <<"1">>, <<" ", "3", " ">>, <<"1", "2">>, <<"+", "4">>}
OtherTexts == {<<"a", "b", "c">>, <<"2", ".", "5">>, <<"-">>, <<" ">>}

\* the arguments of load_settings: as run_async passes them (goal and
\* workspace), and with the max_iterations of a direct call
SettingsArguments ==
  [goal : {None, Some(EmptyStr), Some(Goal)},
   workspace : {None} \cup {Some(w) : w \in OutsidePaths \cup InsidePaths},
   max_iterations : {None} \cup {Some(n) : n \in {0 - 1, 0, 1, 4}}]

\* GOAL, WORKSPACE_DIR and AGENTIC_SWARM_MAX_ITERATIONS: unset, empty or set
Environments ==
  [GOAL : {None, Some(EmptyStr), Some(Goal)},
   WORKSPACE_DIR : {None, Some(<<>>), Some(<<"/", "tmp", "out">>), Some(<<"generated">>)},
   AGENTIC_SWARM_MAX_ITERATIONS :
     {None, Some(<<>>)} \cup {Some(t) : t \in IntegerTexts \cup OtherTexts}]

ConfigInit ==
  /\ WorkflowIdle
  /\ BackoffIdle
  /\ QAIdle
  /\ SummaryIdle
  /\ ScaffoldIdle
  /\ TimerIdle
  /\ cf_args \in SettingsArguments
  /\ cf_env \in Environments
  /\ cf_pc = "load_settings"
  /\ cf_settings = None
  /\ cf_error = "none"

\* settings = load_settings(goal=goal, workspace=workspace): it returns the
\* settings or its ConfigurationError leaves run_async
LoadSettings ==
  /\ cf_pc = "load_settings"
  /\ LET loaded == load_settings(cf_args, cf_env)
     IN IF loaded.raised
          THEN /\ cf_pc' = "raised"
               /\ cf_error' = "ConfigurationError"
               /\ UNCHANGED cf_settings
          ELSE /\ cf_pc' = "loaded"
               /\ cf_settings' = loaded.value
               /\ UNCHANGED cf_error
  /\ UNCHANGED <<cf_args, cf_env>>
  /\ UNCHANGED <<workflow_vars, backoff_vars, qa_vars, summary_vars,
                 scaffold_vars, timer_vars>>

\* return await execute_workflow(settings): the agents are invoked from here on
AwaitExecuteWorkflow ==
  /\ cf_pc = "loaded"
  /\ cf_pc' = "execute_workflow"
  /\ UNCHANGED <<cf_args, cf_env, cf_settings, cf_error>>
  /\ UNCHANGED <<workflow_vars, backoff_vars, qa_vars, summary_vars,
                 scaffold_vars, timer_vars>>

ConfigNext == LoadSettings \/ AwaitExecuteWorkflow

SpecConfig == ConfigInit /\ [][ConfigNext]_vars

\* ------------------------------------------------- preparing the workspace
\* execute_workflow awaits scaffold.ensure_workspace_initialized before its
\* loop; of the loop one pass is followed, with what each step does to the
\* files of the workspace. "." is the workspace directory itself.

ScaffoldInit ==
  /\ WorkflowIdle
  /\ BackoffIdle
  /\ QAIdle
  /\ SummaryIdle
  /\ ConfigIdle
  /\ TimerIdle
  /\ ws_files \in {{}} \cup {{"."} \cup present :
                               present \in SUBSET {"workspace", "pyproject.toml", "src"}}
  /\ ws_uv \in {"available", "missing", "failing"}
  /\ ws_pc = "mkdir"

\* workspace.mkdir(parents=True, exist_ok=True)
ScaffoldMkdir ==
  /\ ws_pc = "mkdir"
  /\ ws_files' = ws_files \cup {"."}
  /\ ws_pc' = "pyproject"
  /\ UNCHANGED ws_uv
  /\ UNCHANGED <<workflow_vars, backoff_vars, qa_vars, summary_vars, config_vars,
                 timer_vars>>

\* pyproject.toml is absent and uv is there: _run_uv_init(workspace)
ScaffoldUvInit ==
  /\ ws_pc = "pyproject"
  /\ "pyproject.toml" \notin ws_files
  /\ ws_uv = "available"
  /\ ws_files' = ws_files \cup {"pyproject.toml", "README.md"}
  /\ ws_pc' = "layout"
  /\ UNCHANGED ws_uv
  /\ UNCHANGED <<workflow_vars, backoff_vars, qa_vars, summary_vars, config_vars,
                 timer_vars>>

\* `uv init .` exits with an error: CalledProcessError leaves execute_workflow
ScaffoldUvFails ==
  /\ ws_pc = "pyproject"
  /\ "pyproject.toml" \notin ws_files
  /\ ws_uv = "failing"
  /\ ws_pc' = "raised"
  /\ UNCHANGED <<ws_files, ws_uv>>
  /\ UNCHANGED <<workflow_vars, backoff_vars, qa_vars, summary_vars, config_vars,
                 timer_vars>>

\* pyproject.toml exists, or uv is not available (a warning): nothing is set up
ScaffoldLeft ==
  /\ ws_pc = "pyproject"
  /\ "pyproject.toml" \in ws_files \/ ws_uv = "missing"
  /\ ws_pc' = "REQUEST_PLAN"
  /\ UNCHANGED <<ws_files, ws_uv>>
  /\ UNCHANGED <<workflow_vars, backoff_vars, qa_vars, summary_vars, config_vars,
                 timer_vars>>

\* _ensure_basic_layout(workspace)
ScaffoldLayout ==
  /\ ws_pc = "layout"
  /\ ws_files' = ws_files \cup {"src", "src/__init__.py", "tests", "tests/__init__.py"}
  /\ ws_pc' = "REQUEST_PLAN"
  /\ UNCHANGED ws_uv
  /\ UNCHANGED <<workflow_vars, backoff_vars, qa_vars, summary_vars, config_vars,
                 timer_vars>>

\* a step of the pass: the planner has no tools, the editor writes through the
\* filesystem server, pytest and the reviewer read
WorkspaceStep ==
  /\ \/ ws_pc = "REQUEST_PLAN" /\ ws_pc' = "RUN_EDITOR" /\ UNCHANGED ws_files
     \/ /\ ws_pc = "RUN_EDITOR"
        /\ \E written \in SUBSET {"src/app.py", "tests/test_app.py"} :
             ws_files' = ws_files \cup written
        /\ ws_pc' = "RUN_TESTS"
     \/ ws_pc = "RUN_TESTS" /\ ws_pc' = "RUN_REVIEW" /\ UNCHANGED ws_files
     \/ ws_pc = "RUN_REVIEW" /\ ws_pc' = "returned" /\ UNCHANGED ws_files
  /\ UNCHANGED ws_uv
  /\ UNCHANGED <<workflow_vars, backoff_vars, qa_vars, summary_vars, config_vars,
                 timer_vars>>

ScaffoldNext ==
  \/ ScaffoldMkdir
  \/ ScaffoldUvInit
  \/ ScaffoldUvFails
  \/ ScaffoldLeft
  \/ ScaffoldLayout
  \/ WorkspaceStep

SpecScaffold == ScaffoldInit /\ [][ScaffoldNext]_vars

\* ------------------------------------------------------------ TaskTimer
\* self._tasks is the sequence of its entries in insertion order, each
\* [task, start_time, elapsed, running]; tt_file is the content of the state
\* file, None while there is no file; tt_last is the last call and whether it
\* raised; times are whole seconds.
TimerTasks == {"default", "build"}

\* {'start_time': None, 'elapsed': 0.0, 'running': False}
NewTask(task) ==
  [task |-> task, start_time |-> None, elapsed |-> 0, running |-> FALSE]

\* self._tasks.get(task): the position of the entry, 0 for None
Find(tasks, task) ==
  LET at == {k \in 1..Len(tasks) : tasks[k].task = task}
  IN IF at = {} THEN 0 ELSE CHOOSE k \in at : TRUE

\* json.dump({'tasks': self._tasks}): for every task its name, start_time
\* (null or a number), elapsed and running (true or false)
RECURSIVE JsonMembers(_)
JsonMembers(tasks) ==
  IF tasks = <<>> THEN <<>>
  ELSE <<tasks[1].task,
         IF tasks[1].start_time = None THEN "null"
         ELSE ToString(tasks[1].start_time[1]),
         ToString(tasks[1].elapsed),
         IF tasks[1].running THEN "true" ELSE "false">>
       \o JsonMembers(Tail(tasks))
JsonDump(tasks) == <<"{">> \o JsonMembers(tasks) \o <<"}">>

\* json.load accepts the text (no JSONDecodeError)
Decodes(text) ==
  /\ Len(text) >= 2
  /\ text[1] = "{" /\ text[Len(text)] = "}"
  /\ (Len(text) - 2) % 4 = 0

\* json.load(handle).get('tasks', {}) of a text that decodes
JsonLoad(text) ==
  LET Number(tok) == CHOOSE n \in 0..MaxClock : ToString(n) = tok
  IN [k \in 1..((Len(text) - 2) \div 4) |->
        [task |-> text[4 * k - 2],
         start_time |-> IF text[4 * k - 1] = "null" THEN None
                        ELSE Some(Number(text[4 * k - 1])),
         elapsed |-> Number(text[4 * k]),
         running |-> text[4 * k + 1] = "true"]]

\* save_state that leaves the file as it is
save_state_Skipped(path, tasks, file) == file

\* save_state(path): the content of the file after it
save_state(path, tasks, file) ==
  IF path = None THEN file ELSE Some(JsonDump(tasks))

\* start accepting a task that runs
StartRefused_Never(tsk) == FALSE

\* `if tsk['running']: raise TaskTimerError`
StartRefused(tsk) == tsk.running

\* stop leaving start_time as it was
Stopped_KeepsStart(tsk, end_time) ==
  [tsk EXCEPT !.elapsed = tsk.elapsed + (end_time - tsk.start_time[1]),
              !.running = FALSE]

\* the entry after stop: elapsed += end_time - start_time, start_time = None,
\* running = False
Stopped(tsk, end_time) ==
  [tsk EXCEPT !.elapsed = tsk.elapsed + (end_time - tsk.start_time[1]),
              !.start_time = None,
              !.running = FALSE]

\* a TaskTimer object exists
Alive ==
  /\ tt_last.op \notin {"none", "exit"}
  /\ ~(tt_last.op = "open" /\ tt_last.raised)

Called(op, task, raised) ==
  [op |-> op, task |-> task, raised |-> raised, seconds |-> 0]

\* the return value of cli.main after its command
MainReturns == IF tt_last.raised THEN 2 ELSE 0

TimerInit ==
  /\ WorkflowIdle
  /\ BackoffIdle
  /\ QAIdle
  /\ SummaryIdle
  /\ ConfigIdle
  /\ ScaffoldIdle
  /\ tt_path \in {None, Some("timer.json")}
  /\ tt_file \in {None, Some(<<"{">>)}
  /\ tt_tasks = <<>>
  /\ tt_now = 0
  /\ tt_last = Called("none", "none", FALSE)

\* TaskTimer(state_file): an empty table, then load_state
TimerOpen ==
  /\ UNCHANGED <<workflow_vars, backoff_vars, qa_vars, summary_vars, config_vars,
                 scaffold_vars>>
  /\ ~Alive
  /\ IF tt_path = None \/ tt_file = None
       THEN /\ tt_tasks' = <<>>
            /\ tt_last' = Called("open", "none", FALSE)
       ELSE IF Decodes(tt_file[1])
         THEN /\ tt_tasks' = JsonLoad(tt_file[1])
              /\ tt_last' = Called("open", "none", FALSE)
         ELSE /\ tt_tasks' = <<>>
              /\ tt_last' = Called("open", "none", TRUE)
  /\ UNCHANGED <<tt_path, tt_file, tt_now>>

\* start(task)
TimerStart(task) ==
  /\ UNCHANGED <<workflow_vars, backoff_vars, qa_vars, summary_vars, config_vars,
                 scaffold_vars>>
  /\ Alive
  /\ LET tasks == IF Find(tt_tasks, task) = 0
                    THEN Append(tt_tasks, NewTask(task)) ELSE tt_tasks
         k == Find(tasks, task)
     IN IF StartRefused(tasks[k])
          THEN /\ tt_tasks' = tasks
               /\ tt_last' = Called("start", task, TRUE)
               /\ UNCHANGED tt_file
          ELSE /\ tt_tasks' = [tasks EXCEPT ![k].start_time = Some(tt_now),
                                            ![k].running = TRUE]
               /\ tt_file' = save_state(tt_path, tt_tasks', tt_file)
               /\ tt_last' = Called("start", task, FALSE)
  /\ UNCHANGED <<tt_path, tt_now>>

\* stop(task)
TimerStop(task) ==
  /\ UNCHANGED <<workflow_vars, backoff_vars, qa_vars, summary_vars, config_vars,
                 scaffold_vars>>
  /\ Alive
  /\ LET k == Find(tt_tasks, task)
     IN IF k = 0 \/ ~tt_tasks[k].running
          THEN /\ tt_last' = Called("stop", task, TRUE)
               /\ UNCHANGED <<tt_tasks, tt_file>>
          ELSE /\ tt_tasks' = [tt_tasks EXCEPT ![k] = Stopped(tt_tasks[k], tt_now)]
               /\ tt_file' = save_state(tt_path, tt_tasks', tt_file)
               /\ tt_last' = Called("stop", task, FALSE)
  /\ UNCHANGED <<tt_path, tt_now>>

\* to_report(task): total_seconds of its data
TimerReport(task) ==
  /\ UNCHANGED <<workflow_vars, backoff_vars, qa_vars, summary_vars, config_vars,
                 scaffold_vars>>
  /\ Alive
  /\ LET k == Find(tt_tasks, task)
         tsk == IF k = 0 THEN NewTask(task) ELSE tt_tasks[k]
         elapsed == IF tsk.running /\ tsk.start_time # None
                      THEN tsk.elapsed + (tt_now - tsk.start_time[1])
                      ELSE tsk.elapsed
     IN tt_last' = [op |-> "report", task |-> task, raised |-> FALSE,
                    seconds |-> elapsed]
  /\ UNCHANGED <<tt_path, tt_file, tt_tasks, tt_now>>

\* the process that holds the TaskTimer ends
TimerExit ==
  /\ UNCHANGED <<workflow_vars, backoff_vars, qa_vars, summary_vars, config_vars,
                 scaffold_vars>>
  /\ Alive
  /\ tt_tasks' = <<>>
  /\ tt_last' = Called("exit", "none", FALSE)
  /\ UNCHANGED <<tt_path, tt_file, tt_now>>

\* time passes: the next reading of time_provider is later
Tick ==
  /\ UNCHANGED <<workflow_vars, backoff_vars, qa_vars, summary_vars, config_vars,
                 scaffold_vars>>
  /\ tt_now < MaxClock
  /\ tt_now' = tt_now + 1
  /\ UNCHANGED <<tt_path, tt_file, tt_tasks, tt_last>>

TimerNext ==
  \/ TimerOpen
  \/ \E task \in TimerTasks : TimerStart(task)
  \/ \E task \in TimerTasks : TimerStop(task)
  \/ \E task \in TimerTasks : TimerReport(task)
  \/ TimerExit
  \/ Tick

SpecTimer == TimerInit /\ [][TimerNext]_vars

\* ------------------------------------------------------------ properties
\* the QA decision of a reviewer output, as DECIDE resolves it
Decision(out) == _qa_passed(_coerce_qa_review(out), out)

\* the QA decision an IterationResult records: its QAReview, or else its QA text
RecordDecision(rec) == _qa_passed(rec.qa_review, Text(rec.qa_summary))

\* positions of the history at which a step of iteration i returned / appears
Returned(step, i) ==
  {k \in 1..Len(log) : log[k].step = step /\ log[k].iteration = i
                         /\ log[k].event = "return"}
Occurs(step, i) ==
  {k \in 1..Len(log) : log[k].step = step /\ log[k].iteration = i}
OutputOf(step, i) == log[CHOOSE k \in Returned(step, i) : TRUE].output

LastRecord == iterations[Len(iterations)]
LastEvent == log[Len(log)]
HasLine(text, line) == \E n \in 1..Len(text) : text[n] = line
ContainsLines(text, part) ==
  \E n \in 0..(Len(text) - Len(part)) :
    \A m \in 1..Len(part) : text[n + m] = part[m]
FeedbackHeader == <<"QA feedback from previous iteration:">>

\* C1: the returned WorkflowResult holds at most settings.max_iterations
\* IterationResults.
C1_AtMostMaxIterations ==
  result # None => Len(result[1].iterations) <= settings.max_iterations

\* C2: in every returned WorkflowResult, success is true if and only if the
\* QA decision of the last IterationResult is PASS.
C2_SuccessIffLastPass ==
  result # None =>
    LET r == result[1]
    IN /\ Len(r.iterations) >= 1
       /\ r.success <=> (RecordDecision(r.iterations[Len(r.iterations)]) = "True")

C2_Witness ==
  /\ result # None
  /\ result[1].success
  /\ Len(result[1].iterations) = 2

\* C3: a record whose QA decision is PASS is the last record, and with it the
\* workflow has returned success=true: nothing was invoked after the
\* reviewer's answer of that iteration.
C3_PassStops ==
  \A i \in 1..Len(iterations) :
    RecordDecision(iterations[i]) = "True" =>
      /\ i = Len(iterations)
      /\ pc = "returned" /\ gw = "idle"
      /\ success
      /\ result = Some(WorkflowResult(iterations, TRUE))
      /\ LastEvent.step = "RUN_REVIEW" /\ LastEvent.event = "return"
      /\ LastEvent.iteration = i

C3_Witness ==
  /\ pc = "returned"
  /\ Len(iterations) = 1
  /\ RecordDecision(iterations[1]) = "True"
  /\ result[1].success

\* C4: without a turn limit or unrecovered rate limit, and with every QA
\* decision FAIL or absent, the workflow returns exactly
\* settings.max_iterations IterationResults and success=false.
C4_ExactlyMaxIterations ==
  (/\ result # None
   /\ abort = "none"
   /\ \A i \in 1..Len(iterations) :
        RecordDecision(iterations[i]) \in {"False", "None"})
  => /\ Len(result[1].iterations) = settings.max_iterations
     /\ ~result[1].success

\* C5: when a rate limit is not recovered in iteration k > 1, the caller
\* still receives a WorkflowResult with the records of iterations 1..k-1.
C5_RateLimitKeepsRecords ==
  (error = "RateLimitError" /\ iteration_index > 1)
  => /\ result # None
     /\ result[1].iterations = iterations

\* C6: a planner turn limit appends the synthetic record (plan "Planner
\* exceeded max turns", plan_complete=false, empty editor and QA text, no test
\* fields) and ends the workflow with success=false.
C6_PlannerTurnLimit ==
  abort = "REQUEST_PLAN" =>
    /\ LastRecord = [plan_summary |-> L(<<"Planner exceeded max turns">>),
                     plan_complete |-> FALSE,
                     coder_summary |-> EmptyStr, qa_summary |-> EmptyStr,
                     qa_review |-> None, test_command |-> None,
                     test_exit_code |-> None, test_output |-> None]
    /\ pc = "returned"
    /\ result = Some(WorkflowResult(iterations, FALSE))

\* C6, what the code does: the same without a plan_complete field, which the
\* code's IterationResult does not have.
C6_PlannerTurnLimitNoFlag ==
  abort = "REQUEST_PLAN" =>
    /\ LastRecord = IterationResult(L(<<"Planner exceeded max turns">>), EmptyStr,
                                    EmptyStr, None, None, None, None)
    /\ Len(iterations) = iteration_index
    /\ pc = "returned" /\ gw = "idle"
    /\ result = Some(WorkflowResult(iterations, FALSE))
    /\ Occurs("RUN_EDITOR", iteration_index) = {}
    /\ Occurs("RUN_TESTS", iteration_index) = {}
    /\ Occurs("RUN_REVIEW", iteration_index) = {}

\* C7: an editor turn limit appends one record with this iteration's plan,
\* the editor text "Coder exceeded max turns", no QA and no test fields, and
\* ends the workflow with success=false; tests and reviewer did not run in
\* that iteration and nothing follows.
C7_EditorTurnLimit ==
  abort = "RUN_EDITOR" =>
    /\ Returned("REQUEST_PLAN", iteration_index) # {}
    /\ LastRecord = IterationResult(OutputOf("REQUEST_PLAN", iteration_index),
                                    L(<<"Coder exceeded max turns">>), EmptyStr,
                                    None, None, None, None)
    /\ Len(iterations) = iteration_index
    /\ pc = "returned" /\ gw = "idle"
    /\ result = Some(WorkflowResult(iterations, FALSE))
    /\ Occurs("RUN_TESTS", iteration_index) = {}
    /\ Occurs("RUN_REVIEW", iteration_index) = {}
    /\ LastEvent.step = "RUN_EDITOR" /\ LastEvent.event = "invoke"

C7_Witness ==
  /\ abort = "RUN_EDITOR"
  /\ iteration_index = 2
  /\ Returned("REQUEST_PLAN", 1) # {}
  /\ OutputOf("REQUEST_PLAN", 1) # OutputOf("REQUEST_PLAN", 2)

\* C8: a reviewer turn limit appends one record with QA text "QA exceeded max
\* turns", no QAReview, and the test command, exit code and output of this
\* iteration's test run, and ends the workflow with success=false.
C8_ReviewerTurnLimit ==
  abort = "RUN_REVIEW" =>
    /\ Returned("RUN_TESTS", iteration_index) # {}
    /\ LET tr == OutputOf("RUN_TESTS", iteration_index)
       IN /\ LastRecord.qa_summary = L(<<"QA exceeded max turns">>)
          /\ LastRecord.qa_review = None
          /\ LastRecord.test_command = tr.command
          /\ LastRecord.test_exit_code = tr.exit_code
          /\ LastRecord.test_output = tr.output
          /\ tr.command # None
    /\ Len(iterations) = iteration_index
    /\ pc = "returned" /\ gw = "idle"
    /\ result = Some(WorkflowResult(iterations, FALSE))
    /\ LastEvent.step = "RUN_REVIEW" /\ LastEvent.event = "invoke"

C8_Witness ==
  /\ abort = "RUN_REVIEW"
  /\ iteration_index = 2
  /\ Returned("RUN_TESTS", 1) # {}
  /\ OutputOf("RUN_TESTS", 1).exit_code # OutputOf("RUN_TESTS", 2).exit_code

\* C9: the plan request of iteration 1 carries no feedback; the plan request
\* of iteration j > 1 is built from the feedback computed from the reviewer
\* output of iteration j-1, and carries that text and, for a structured
\* review with issues, every issue of iteration j-1.
C9_FeedbackThreading ==
  \A k \in 1..Len(log) :
    (log[k].step = "REQUEST_PLAN" /\ log[k].event = "invoke") =>
      LET j == log[k].iteration
          req == log[k].output
      IN IF j = 1
           THEN /\ req = build_planner_instruction(settings.goal, None)
                /\ ~HasLine(req, FeedbackHeader)
           ELSE /\ Returned("RUN_REVIEW", j - 1) # {}
                /\ LET out == OutputOf("RUN_REVIEW", j - 1)
                       fb == _planner_feedback_from_qa(_coerce_qa_review(out), out)
                   IN /\ req = build_planner_instruction(settings.goal, Some(fb))
                      /\ fb # EmptyStr =>
                           /\ HasLine(req, FeedbackHeader)
                           /\ ContainsLines(req, strip(fb))
                      /\ out.kind = "QAReview" =>
                           \A n \in 1..Len(out.issues) :
                             HasLine(req, <<"-", " ">> \o out.issues[n][1])

C9_Witness ==
  /\ Len(log) > 0
  /\ LastEvent.step = "REQUEST_PLAN" /\ LastEvent.event = "invoke"
  /\ LastEvent.iteration = 3
  /\ OutputOf("RUN_REVIEW", 1).kind = "str"
  /\ OutputOf("RUN_REVIEW", 1).text # EmptyStr
  /\ OutputOf("RUN_REVIEW", 2).kind = "QAReview"
  /\ HasLine(LastEvent.output, <<"-", " ", "missing tests">>)

Decided(d) ==
  {i \in 1..max_iterations :
     Returned("RUN_REVIEW", i) # {} /\ Decision(OutputOf("RUN_REVIEW", i)) = d}

\* iterations named by the message of a record of this level
SignalledAt(level) ==
  {sg.iteration : sg \in {x \in signals : x.level = level /\ x.iteration > 0}}

MissingStatusWarning(i) ==
  [level |-> "WARNING", iteration |-> i,
   message |-> "QA output missing OVERALL_STATUS; assuming more work needed"]

ReportedIssuesInfo(i) ==
  [level |-> "INFO", iteration |-> i,
   message |-> "QA reported issues; feeding back to planner"]

\* C11 as stated: of the iterations whose reviewer output was resolved, a
\* WARNING record is emitted in exactly those whose QA decision is absent.
C11_WarningIffAbsent ==
  \A i \in 1..max_iterations :
    Returned("RUN_REVIEW", i) # {}
      => (i \in SignalledAt("WARNING") <=> i \in Decided("None"))

\* C11 amended: the WARNING "QA output missing OVERALL_STATUS" is emitted in
\* exactly the iterations whose QA decision is absent and the INFO "QA
\* reported issues" in exactly those whose decision is FAIL; every other
\* WARNING is a rate-limit retry or a skipped pytest run.
C11_MissingStatusWarning ==
  /\ {i \in 1..max_iterations : MissingStatusWarning(i) \in signals} = Decided("None")
  /\ {i \in 1..max_iterations : ReportedIssuesInfo(i) \in signals} = Decided("False")
  /\ \A sg \in signals :
       (sg.level = "WARNING" /\ sg # MissingStatusWarning(sg.iteration))
         => sg.message \in {"Rate limit hit", "pytest was skipped"}

C11_Witness ==
  /\ Decided("None") = {1}
  /\ Decided("False") = {2}
  /\ MissingStatusWarning(1) \in signals
  /\ ReportedIssuesInfo(2) \in signals
  /\ SignalledAt("WARNING") = {1, 2}

\* ----------------------------------------------- properties of the gateway
RateLimit == RunRaised("RateLimitError")
AllRateLimited(calls) == \A k \in 1..Len(calls) : calls[k] = RateLimit
LastCall == bo_calls[Len(bo_calls)]

\* C12: only a rate-limited call is followed by another call, and there are
\* at most max_retries calls; when all max_retries calls were rate-limited
\* the rate-limit error is raised to the caller, and it is raised only then;
\* a call that succeeds ends the invocation with that call's output.
C12_RetryBudget ==
  /\ Len(bo_calls) <= bo_max_retries
  /\ AllRateLimited(SubSeq(bo_calls, 1, Len(bo_calls) - 1))
  /\ (AllRateLimited(bo_calls) /\ Len(bo_calls) = bo_max_retries)
       => (bo_pc = "done" /\ bo_outcome = Some(RateLimit))
  /\ bo_outcome = Some(RateLimit)
       => /\ Len(bo_calls) = bo_max_retries
          /\ AllRateLimited(bo_calls)
          /\ Len(bo_sleeps) = bo_max_retries - 1
  /\ (bo_calls # <<>> /\ LastCall.kind = "returned")
       => (bo_pc = "done" /\ bo_outcome = Some(LastCall))
  /\ (bo_outcome # None /\ bo_outcome[1].kind = "returned")
       => bo_outcome[1] = LastCall

C12_Witness ==
  /\ bo_max_retries = RATE_LIMIT_MAX_RETRIES
  /\ bo_outcome = Some(RateLimit)
  /\ Len(bo_calls) = 5

\* C13: a call that raises anything but a rate limit is the last call of the
\* invocation, whatever its attempt number: the failure is what the caller
\* gets, and no sleep follows it.
C13_OtherFailurePropagates ==
  \A k \in 1..Len(bo_calls) :
    (bo_calls[k].kind = "raised" /\ bo_calls[k] # RateLimit)
      => /\ k = Len(bo_calls)
         /\ k = bo_attempt
         /\ bo_pc = "done"
         /\ bo_outcome = Some(bo_calls[k])
         /\ Len(bo_sleeps) = k - 1

C13_Witness ==
  /\ Len(bo_calls) = 3
  /\ LastCall = RunRaised("MaxTurnsExceeded")
  /\ bo_outcome = Some(RunRaised("MaxTurnsExceeded"))
  /\ bo_max_retries = RATE_LIMIT_MAX_RETRIES

StrictlyIncreasing(seq) == \A k \in 1..(Len(seq) - 1) : seq[k] < seq[k + 1]

\* the delay slept before attempt k, for the attempts made so far
SleptBefore(k) == bo_sleeps[k - 1]

\* C14 as stated: the delays before attempts 2..5 increase strictly and the
\* delay before attempt k lies in [1.5*2^(k-1), 1.5*2^(k-1) + 0.5].
C14_DelayBeforeAttempt ==
  /\ StrictlyIncreasing(bo_sleeps)
  /\ \A k \in 2..(Len(bo_sleeps) + 1) :
       /\ SleptBefore(k) >= RATE_LIMIT_INITIAL_DELAY * RATE_LIMIT_BACKOFF_MULTIPLIER^(k - 1)
       /\ SleptBefore(k) <= RATE_LIMIT_INITIAL_DELAY * RATE_LIMIT_BACKOFF_MULTIPLIER^(k - 1) + RATE_LIMIT_JITTER

\* C14 amended: the delays before attempts 2..5 increase strictly and the
\* delay before attempt k lies in [1.5*2^(k-2), 1.5*2^(k-2) + 0.5].
C14_BackoffDelays ==
  /\ StrictlyIncreasing(bo_sleeps)
  /\ Len(bo_sleeps) <= RATE_LIMIT_MAX_RETRIES - 1
  /\ \A k \in 2..(Len(bo_sleeps) + 1) :
       /\ SleptBefore(k) >= RATE_LIMIT_INITIAL_DELAY * RATE_LIMIT_BACKOFF_MULTIPLIER^(k - 2)
       /\ SleptBefore(k) <= RATE_LIMIT_INITIAL_DELAY * RATE_LIMIT_BACKOFF_MULTIPLIER^(k - 2) + RATE_LIMIT_JITTER

C14_Witness ==
  /\ bo_max_retries = RATE_LIMIT_MAX_RETRIES
  /\ bo_attempt = 5
  /\ AllRateLimited(bo_calls)
  /\ bo_sleeps = <<19, 30, 64, 120>>

\* C15: the base delay is 1.5 at the first attempt and doubles with every
\* retry made; the j-th sleep of the invocation is the base delay of the
\* j-th attempt plus a jitter between 0 and 0.5.
C15_BaseDelayDoubles ==
  /\ bo_pc \in {"running", "sleeping"}
       => bo_delay = RATE_LIMIT_INITIAL_DELAY * RATE_LIMIT_BACKOFF_MULTIPLIER^(bo_attempt - 1)
  /\ bo_pc = "running" => bo_attempt = Len(bo_sleeps) + 1
  /\ bo_pc = "sleeping" => (bo_attempt = Len(bo_sleeps) /\ bo_snooze = bo_sleeps[bo_attempt])
  /\ \A j \in 1..Len(bo_sleeps) :
       /\ bo_calls[j] = RateLimit
       /\ bo_sleeps[j] - RATE_LIMIT_INITIAL_DELAY * RATE_LIMIT_BACKOFF_MULTIPLIER^(j - 1) \in 0..RATE_LIMIT_JITTER

C15_Witness ==
  /\ bo_pc = "sleeping"
  /\ bo_attempt = 4
  /\ bo_delay = 120
  /\ bo_snooze = 124

\* ---------------------------------------------- properties of the resolver
\* the resolution of r_output is over
Resolved == r_pc \in {"done", "raised"}

\* r_output is reviewer prose: a str made of the lines of QALines
IsProse == r_output.kind = "str" /\ \A n \in 1..Len(r_output.text) : r_output.text[n] \in QALines

\* the positions of the status lines of the prose
StatusLinesAt == {n \in 1..Len(r_output.text) : r_output.text[n] \in PassLines \cup FailLines}

DecisionOfLine(line) == IF line \in PassLines THEN "True" ELSE "False"

\* C16: an output that is a structured review (a QAReview, a dict or JSON
\* text of one) is coerced to a review of its status, and the decision is
\* PASS iff that status is PASS, whatever OVERALL_STATUS lines its summary
\* and issues hold.
C16_StructuredDecides ==
  \A st \in {"PASS", "FAIL"} :
    (r_output \in StructuredOutputs(st) /\ r_pc # "coerce")
      => /\ r_review # None
         /\ r_review[1].kind = "QAReview" /\ r_review[1].status = st
         /\ Resolved =>
              /\ r_pc = "done"
              /\ r_status = (IF st = "PASS" THEN "True" ELSE "False")

C16_Witness ==
  /\ r_pc = "done"
  /\ r_output.kind = "str" /\ Len(r_output.text) = 3
  /\ r_review # None
  /\ r_review[1].status = "FAIL"
  /\ HasLine(r_review[1].summary, PlainPass)
  /\ r_status = "False"

\* C17: for reviewer prose with exactly one status line the decision is that
\* line's (PASS or FAIL), wherever the line stands; for prose with no status
\* line there is no decision.
C17_SingleStatusLine ==
  (Resolved /\ IsProse)
    => /\ r_pc = "done"
       /\ r_review = None
       /\ StatusLinesAt = {} => r_status = "None"
       /\ \A n \in StatusLinesAt :
            StatusLinesAt = {n} => r_status = DecisionOfLine(r_output.text[n])

C17_Witness ==
  /\ r_pc = "done"
  /\ r_output = Text(<< <<"looks", " ", "fine">>, PlainFail,
                       <<"OVERALL_STATUS:", " ", "PASS", " ", "once", " ", "fixed">> >>)
  /\ r_status = "False"

\* C18: for reviewer prose with several status lines the decision is that of
\* the last of them.
C18_LastStatusLineWins ==
  (Resolved /\ IsProse /\ Cardinality(StatusLinesAt) >= 2)
    => LET last == CHOOSE n \in StatusLinesAt : \A m \in StatusLinesAt : m <= n
       IN r_status = DecisionOfLine(r_output.text[last])

C18_Witness ==
  /\ r_pc = "done"
  /\ r_output = Text(<<PlainFail, PlainPass, <<"looks", " ", "fine">> >>)
  /\ r_status = "True"

\* C19: a text that is one status line in any letter case, with or without
\* asterisks and blanks around it, resolves to the decision of the plain
\* upper-case line: PASS for a PASS line, FAIL for a FAIL line.
C19_CaseAndEmphasis ==
  (Resolved /\ r_output.kind = "str" /\ Len(r_output.text) = 1)
    => /\ r_output.text[1] \in VariantLines(PassVariants)
            => (r_pc = "done" /\ r_review = None /\ r_status = "True")
       /\ r_output.text[1] \in VariantLines(FailVariants)
            => (r_pc = "done" /\ r_review = None /\ r_status = "False")

C19_Witness ==
  /\ r_pc = "done"
  /\ r_output = Text(<< <<" ", "*", "*", " ", "overall_status:", "pass", "*", "*">> >>)
  /\ r_status = "True"

\* C20: every reviewer output is resolved to PASS, FAIL or absent without
\* raising: no reviewer output makes the workflow raise.
C20_ResolutionTotal ==
  /\ error # "AttributeError"
  /\ \A k \in 1..Len(log) :
       (log[k].step = "RUN_REVIEW" /\ log[k].event = "return")
         => Decision(log[k].output) \in {"True", "False", "None"}

\* the tokens of a text in one sequence, its lines joined by a newline token
RECURSIVE Flat(_)
Flat(text) ==
  IF Len(text) = 1 THEN text[1] ELSE text[1] \o <<"\n">> \o Flat(Tail(text))

\* the offsets of the flattened text at which part occurs
OccursAt(text, part) ==
  LET hay == Flat(text)
      needle == Flat(part)
  IN {n \in 0..(Len(hay) - Len(needle)) :
        \A m \in 1..Len(needle) : hay[n + m] = needle[m]}

\* the offsets at which issue stands as a bullet: at the start of a line, "- "
\* and the issue, up to the end of a line
BulletAt(text, issue) ==
  LET hay == <<"\n">> \o Flat(text) \o <<"\n">>
      needle == <<"\n", "-", " ">> \o Flat(issue) \o <<"\n">>
  IN {n \in 0..(Len(hay) - Len(needle)) :
        \A m \in 1..Len(needle) : hay[n + m] = needle[m]}

\* the lines of a text that open a bullet
BulletLines(text) ==
  {n \in 1..Len(text) : Len(text[n]) >= 2 /\ SubSeq(text[n], 1, 2) = <<"-", " ">>}

\* the planner feedback was computed from a structured review
FedReview == r_feedback # None /\ r_review # None

\* C21: the planner feedback of a structured review names its summary and
\* its status; with issues, every issue stands in it as its own "- " bullet,
\* in the order of the review and after the status; without issues it has no
\* issue section.
C21_FeedbackListsIssues ==
  FedReview =>
    LET r == r_review[1]
        text == r_feedback[1]
        n == Len(r.issues)
    IN /\ OccursAt(text, Cat(L(<<"QA Summary:", " ">>), r.summary)) = {0}
       /\ HasLine(text, <<"Status:", " ", r.status>>)
       /\ n > 0 =>
            /\ HasLine(text, <<"Outstanding issues:">>)
            /\ Cardinality(BulletLines(text)) = n
            /\ \E at \in [1..n -> 0..Len(Flat(text))] :
                 /\ \A i \in 1..n : at[i] \in BulletAt(text, r.issues[i])
                 /\ \A i \in 1..(n - 1) : at[i] < at[i + 1]
                 /\ \A i \in 1..n :
                      \A k \in OccursAt(text, L(<<"Status:", " ", r.status>>)) :
                        k < at[i]
       /\ n = 0 =>
            /\ ~HasLine(text, <<"Outstanding issues:">>)
            /\ BulletLines(text) = {}

C21_Witness ==
  /\ FedReview
  /\ r_review[1].status = "FAIL"
  /\ r_review[1].issues = <<S("missing tests"), S("no docs")>>
  /\ ContainsLines(r_feedback[1], <<<<"-", " ", "missing tests">>, <<"-", " ", "no docs">>>>)

\* positions of the history at which a step of iteration i was invoked
Invoked(step, i) ==
  {k \in 1..Len(log) : log[k].step = step /\ log[k].iteration = i
                         /\ log[k].event = "invoke"}

\* the line of a test summary that tells the tests were not run
NotRunLine ==
  <<"Status:", " ", "not run", " ", "(missing command or error before execution)">>

\* iteration i is over: a later iteration runs or the workflow has ended
IterationOver(i) == iteration_index > i \/ pc \in {"returned", "raised"}

\* in every iteration whose test run has no exit code, the test result has a
\* non-empty output, and the reviewer is invoked with a summary that says
\* "not run" before the iteration is over
NotRunReachesReviewer ==
  \A i \in 1..iteration_index :
    \A k \in Returned("RUN_TESTS", i) :
      log[k].output.exit_code = None =>
        /\ log[k].output.output # None /\ Truthy(log[k].output.output[1])
        /\ \A j \in Invoked("RUN_REVIEW", i) : HasLine(log[j].output, NotRunLine)
        /\ IterationOver(i) => Invoked("RUN_REVIEW", i) # {}

\* C22: when the test command cannot be located or launched, the test step
\* yields a TestRunResult with no exit code and a non-empty output, and the
\* workflow goes on: no launch failure ends it, and the reviewer is invoked in
\* that iteration with a test summary that says "not run".
C22_LaunchFailureContinues ==
  /\ error # "OSError"
  /\ NotRunReachesReviewer

\* C23: RUN_TESTS never raises: whatever happens when the test command is
\* launched or run, the step leaves a TestRunResult and the controller goes on
\* to RUN_REVIEW.
C23_TestStepNeverRaises ==
  [][pc = "RUN_TESTS" =>
       \/ pc' = "RUN_TESTS"
       \/ pc' = "RUN_REVIEW" /\ test_result' # None]_vars

\* the classification a status line shows: the words it holds
Shown(line) ==
  {w \in {"PASS", "FAIL", "not run"} :
     \E n \in 1..Len(line) : line[n] = w \/ (w = "not run" /\ line[n] = "NOT RUN")}

\* the classification the exit code calls for
Classified(exit_code) ==
  IF exit_code = None THEN "not run"
  ELSE IF exit_code[1] = 0 THEN "PASS" ELSE "FAIL"

\* C24: the status line of a test summary shows PASS exactly when the exit
\* code is 0, FAIL exactly when it is present and not 0, and "not run" exactly
\* when it is absent, whatever the command and the output are; the CLI
\* rendering of the IterationResult shows the same classification.
C24_ClassifiedByExitCode ==
  /\ ts_summary # None => Shown(ts_summary[1][2]) = {Classified(ts_result.exit_code)}
  /\ ts_cli # None => Shown(ts_cli[1][2]) = {Classified(ts_result.exit_code)}

C24_Witness ==
  /\ ts_pc = "done"
  /\ ts_result.exit_code = Some(0)
  /\ ts_result.output = Some(L(<<"Exit code:", " ", "1", " ", "(", "FAIL", ")">>))
  /\ Shown(ts_summary[1][2]) = {"PASS"}
  /\ Shown(ts_cli[1][2]) = {"PASS"}

\* execute_workflow is over: it returned or an exception left it
Ended == pc \in {"returned", "raised"}

\* C25: the workflow ends without a PASS and with fewer than max_iterations
\* iterations only when the planner, the editor or the reviewer exceeded its
\* turn limit or a rate limit was not recovered; nothing else (a failing test
\* step, a reviewer output that cannot be read, any other error) ends it early.
C25_EarlyEndOnlyOnLimits ==
  (Ended /\ ~success /\ Len(iterations) < settings.max_iterations)
    => (abort \in AgentSteps \/ error = "RateLimitError")

\* what was asked of load_settings, read off its arguments and the environment
Blank(value) == value = None \/ value = Some(EmptyStr)
GoalMissing == Blank(cf_args.goal) /\ Blank(cf_env.GOAL)
WorkspaceAsked ==
  IF cf_args.workspace # None THEN cf_args.workspace
  ELSE IF cf_env.WORKSPACE_DIR \in {None, Some(<<>>)} THEN None
  ELSE cf_env.WORKSPACE_DIR
WorkspaceMissing == WorkspaceAsked = None
WorkspaceDisallowed == WorkspaceAsked # None /\ WorkspaceAsked[1] \in InsidePaths
IterationsInvalid ==
  IF cf_args.max_iterations # None THEN cf_args.max_iterations[1] < 1
  ELSE cf_env.AGENTIC_SWARM_MAX_ITERATIONS \in
         {Some(t) : t \in OtherTexts \cup {<<"0">>, <<"-", "2">>}}

\* load_settings is over
SettingsResolved == cf_pc # "load_settings"

\* C26: load_settings raises ConfigurationError when the goal is missing, the
\* workspace is missing or lies in the project, or the iteration count is
\* below 1 or no integer; when it raises, execute_workflow is never entered,
\* so no agent is invoked; and the RuntimeSettings it returns have
\* max_iterations >= 1.
C26_SettingsValidated ==
  /\ (SettingsResolved /\ (GoalMissing \/ WorkspaceMissing \/ WorkspaceDisallowed
                             \/ IterationsInvalid))
       => cf_error = "ConfigurationError"
  /\ cf_error # "none" => (cf_pc = "raised" /\ cf_settings = None)
  /\ cf_pc = "execute_workflow" => (cf_error = "none" /\ cf_settings # None)
  /\ cf_settings # None => cf_settings[1].max_iterations >= 1

C26_Witness ==
  /\ cf_pc = "raised"
  /\ ~GoalMissing /\ ~WorkspaceMissing /\ ~WorkspaceDisallowed
  /\ cf_args.max_iterations = None
  /\ cf_env.AGENTIC_SWARM_MAX_ITERATIONS = Some(<<"0">>)
  /\ cf_error = "ConfigurationError"

\* what the history holds of iteration i: the step and the event of each entry
StepTrace(i) ==
  LET OfIteration(e) == e.iteration = i
      entries == SelectSeq(log, OfIteration)
  IN [k \in 1..Len(entries) |-> <<entries[k].step, entries[k].event>>]

\* one full iteration, with a test process and without one
StepCycle ==
  <<<<"REQUEST_PLAN", "invoke">>, <<"REQUEST_PLAN", "return">>,
    <<"RUN_EDITOR", "invoke">>, <<"RUN_EDITOR", "return">>,
    <<"RUN_TESTS", "invoke">>, <<"RUN_TESTS", "return">>,
    <<"RUN_REVIEW", "invoke">>, <<"RUN_REVIEW", "return">>>>
StepCycleNotFound == SubSeq(StepCycle, 1, 4) \o SubSeq(StepCycle, 6, 8)

IsPrefix(a, b) == Len(a) <= Len(b) /\ a = SubSeq(b, 1, Len(a))

StepAfter(step) ==
  CASE step = "REQUEST_PLAN" -> "RUN_EDITOR"
    [] step = "RUN_EDITOR" -> "RUN_TESTS"
    [] step = "RUN_TESTS" -> "RUN_REVIEW"

\* the step the controller is at is the one the history of the iteration makes due
StepDue ==
  LET t == StepTrace(iteration_index)
  IN pc = IF t = <<>> THEN "REQUEST_PLAN"
          ELSE IF t[Len(t)][2] = "invoke" THEN t[Len(t)][1]
          ELSE StepAfter(t[Len(t)][1])

\* C27: in every iteration the steps happen in the order REQUEST_PLAN,
\* RUN_EDITOR, RUN_TESTS, RUN_REVIEW, DECIDE, none skipped and none repeated:
\* the history of an iteration is a beginning of that cycle, an earlier
\* iteration went through all of it, and a record is appended only after the
\* reviewer returned (or a turn limit ended the workflow).
C27_StepOrder ==
  /\ \A k \in 1..(Len(log) - 1) : log[k].iteration <= log[k + 1].iteration
  /\ \A i \in 1..iteration_index :
       /\ IsPrefix(StepTrace(i), StepCycle) \/ IsPrefix(StepTrace(i), StepCycleNotFound)
       /\ i < iteration_index => StepTrace(i) \in {StepCycle, StepCycleNotFound}
  /\ pc \in AgentSteps \cup {"RUN_TESTS"} => StepDue
  /\ \A i \in 1..Len(iterations) :
       \/ Returned("RUN_REVIEW", i) # {}
       \/ i = Len(iterations) /\ abort \in AgentSteps
  /\ \A i \in 1..iteration_index :
       Returned("RUN_REVIEW", i) # {} => Len(iterations) >= i

C27_Witness ==
  /\ pc = "returned"
  /\ iteration_index = 2
  /\ StepTrace(1) = StepCycleNotFound
  /\ StepTrace(2) = StepCycle
  /\ Len(iterations) = 2

\* C28: as long as every capability call and every test run returns or fails,
\* execute_workflow ends, after at most max_iterations iterations and at most
\* max_retries capability attempts in each plan, edit and review step.
C28_BoundedRun ==
  /\ iteration_index <= settings.max_iterations
  /\ attempt <= RATE_LIMIT_MAX_RETRIES

\* what holds of the code: the run stays within the loop's own bound and the
\* retry budget, a workflow that has not ended is at a step that is about to
\* be called or awaits a call or a sleep, and every step takes it further, so
\* it ends once every awaited call comes back
Progress ==
  IF Ended THEN 13 * (Len(log) + 1) + 12
  ELSE 13 * Len(log) + 2 * attempt + (IF gw = "sleeping" THEN 1 ELSE 0)
NeverStuck ==
  \/ Ended
  \/ pc \in AgentSteps /\ gw \in {"idle", "running", "sleeping"}
  \/ pc = "RUN_TESTS" /\ gw \in {"idle", "running"}
AlwaysFurther == [][Progress' > Progress]_vars
BoundedByLoop ==
  /\ iteration_index <= max_iterations
  /\ Len(iterations) <= max_iterations
  /\ attempt <= RATE_LIMIT_MAX_RETRIES

\* the operations in flight: the invocations of the history that have not
\* come back
Pending ==
  {k \in 1..Len(log) :
     /\ log[k].event = "invoke"
     /\ ~\E m \in (k + 1)..Len(log) :
          /\ log[m].event = "return"
          /\ log[m].step = log[k].step
          /\ log[m].iteration = log[k].iteration}

\* C29: the workflow has at most one operation in flight: an agent call or
\* a test run is followed in the history by its own return before anything
\* else is started, while the workflow runs the pending operation is the step
\* it is at, and an iteration starts only after the record of the one before
\* was appended.
C29_OneInFlight ==
  /\ Cardinality(Pending) <= 1
  /\ \A k \in 1..(Len(log) - 1) :
       log[k].event = "invoke" =>
         /\ log[k + 1].event = "return"
         /\ log[k + 1].step = log[k].step
         /\ log[k + 1].iteration = log[k].iteration
  /\ ~Ended =>
       /\ gw = "idle" => Pending = {}
       /\ gw # "idle" =>
            \E k \in Pending : log[k].step = pc /\ log[k].iteration = iteration_index
  /\ \A k \in 1..Len(log) : Len(iterations) >= log[k].iteration - 1

C29_Witness ==
  /\ iteration_index = 2
  /\ pc = "RUN_REVIEW"
  /\ gw = "sleeping"
  /\ Cardinality(Pending) = 1
  /\ Len(iterations) = 1

\* a loop pass came to its end with a record due: its reviewer returned, or a
\* turn limit ended it
PassRecorded(i) ==
  \/ Returned("RUN_REVIEW", i) # {}
  \/ i = iteration_index /\ abort \in AgentSteps

\* what a step returned in iteration i, or what stands for it in the record
\* when the step did not return
Described(i, step, placeholder) ==
  IF Returned(step, i) # {} THEN OutputOf(step, i) ELSE placeholder

\* record i is the one of iteration i: its plan, edit and test fields are what
\* the steps of that iteration returned
DescribesIteration(i) ==
  LET rec == iterations[i]
  IN /\ rec.plan_summary =
          Described(i, "REQUEST_PLAN", L(<<"Planner exceeded max turns">>))
     /\ rec.coder_summary =
          IF Returned("REQUEST_PLAN", i) = {} THEN EmptyStr
          ELSE Described(i, "RUN_EDITOR", L(<<"Coder exceeded max turns">>))
     /\ Returned("RUN_TESTS", i) # {} =>
          LET tr == OutputOf("RUN_TESTS", i)
          IN /\ rec.test_command = tr.command
             /\ rec.test_exit_code = tr.exit_code
             /\ rec.test_output = tr.output
     /\ Returned("RUN_TESTS", i) = {} =>
          rec.test_command = None /\ rec.test_exit_code = None
     /\ Returned("RUN_REVIEW", i) # {} =>
          rec.qa_summary = _summarise_qa_output(OutputOf("RUN_REVIEW", i)).summary_text
     /\ (Returned("RUN_TESTS", i) # {} /\ Returned("RUN_REVIEW", i) = {}) =>
          rec.qa_summary = L(<<"QA exceeded max turns">>)

\* iterations changes only by one record appended at its end
GrowsByAppending ==
  \/ iterations' = iterations
  \/ /\ Len(iterations') = Len(iterations) + 1
     /\ SubSeq(iterations', 1, Len(iterations)) = iterations

\* C30: iterations only grows by appending. Every loop pass that reaches its
\* decision or is ended by a turn limit has appended exactly one record, no
\* other pass has one, the records already there are never changed, reordered
\* or removed, and the i-th record describes the i-th iteration.
C30_AppendOnly ==
  /\ [][GrowsByAppending]_vars
  /\ [](/\ Len(iterations) <= iteration_index
        /\ \A i \in 1..iteration_index : PassRecorded(i) <=> i <= Len(iterations)
        /\ \A i \in 1..Len(iterations) : DescribesIteration(i))

C30_Witness ==
  /\ Len(iterations) = 3
  /\ abort = "RUN_EDITOR"
  /\ iterations[1] # iterations[2]
  /\ iterations[3].coder_summary = L(<<"Coder exceeded max turns">>)
  /\ result = Some(WorkflowResult(iterations, FALSE))

\* the test step of iteration i is behind the controller: it went on to the
\* review, or the workflow ended for another reason than a failed launch
PastTests(i) ==
  /\ Returned("RUN_EDITOR", i) # {}
  /\ \/ i < iteration_index
     \/ pc \in {"RUN_REVIEW", "returned"}
     \/ pc = "raised" /\ error # "OSError"

\* C31: the test adapter runs once in every iteration whose editor returned
\* and never in an iteration ended at the planner or the editor; the test
\* fields of a record are those of the test run of its own iteration, and its
\* test command is absent exactly when no test run took place in it.
C31_TestsOncePerIteration ==
  /\ \A i \in 1..iteration_index :
       /\ Cardinality(Returned("RUN_TESTS", i)) <= 1
       /\ Cardinality(Invoked("RUN_TESTS", i)) <= 1
       /\ Occurs("RUN_TESTS", i) # {} => Returned("RUN_EDITOR", i) # {}
       /\ PastTests(i) => Cardinality(Returned("RUN_TESTS", i)) = 1
       /\ (i = iteration_index /\ abort \in {"REQUEST_PLAN", "RUN_EDITOR"})
            => Occurs("RUN_TESTS", i) = {}
  /\ \A i \in 1..Len(iterations) :
       LET rec == iterations[i]
       IN /\ rec.test_command = None <=> Returned("RUN_TESTS", i) = {}
          /\ Returned("RUN_TESTS", i) # {} =>
               LET tr == OutputOf("RUN_TESTS", i)
               IN /\ rec.test_command = tr.command
                  /\ rec.test_exit_code = tr.exit_code
                  /\ rec.test_output = tr.output
          /\ Returned("RUN_TESTS", i) = {} =>
               rec.test_exit_code = None /\ rec.test_output = None

C31_Witness ==
  /\ Len(iterations) = 2
  /\ abort = "RUN_EDITOR"
  /\ iterations[1].test_exit_code = Some(1)
  /\ iterations[2].test_command = None
  /\ Returned("RUN_TESTS", 1) # {}
  /\ Occurs("RUN_TESTS", 2) = {}

\* C32: the controller never changes the workspace: whenever the files of the
\* workspace change, it is the editor that changed them; what the controller
\* does itself, before the first iteration too, leaves them as they are.
C32_OnlyEditorWrites == [][ws_files' # ws_files => ws_pc = "RUN_EDITOR"]_vars

\* the test processes that were launched and have not been waited for
LiveTests == {k \in Pending : log[k].step = "RUN_TESTS"}

\* C33: a test process that was launched is waited for before the adapter
\* returns: a live test process exists only while the controller is in the
\* test step of the same iteration, the result of a launched run carries the
\* exit code and the output of the process, and no reviewer is invoked while a
\* test process is alive.
C33_TestsAwaited ==
  /\ \A k \in LiveTests :
       pc = "RUN_TESTS" /\ gw = "running" /\ log[k].iteration = iteration_index
  /\ \A i \in 1..iteration_index :
       (Invoked("RUN_TESTS", i) # {} /\ Returned("RUN_TESTS", i) # {}) =>
         /\ \A k \in Invoked("RUN_TESTS", i) : \A m \in Returned("RUN_TESTS", i) : k < m
         /\ OutputOf("RUN_TESTS", i).exit_code # None
         /\ OutputOf("RUN_TESTS", i).output # None
  /\ \A k \in 1..Len(log) :
       (log[k].step = "RUN_REVIEW" /\ log[k].event = "invoke") =>
         \A j \in Invoked("RUN_TESTS", log[k].iteration) :
           \E m \in Returned("RUN_TESTS", log[k].iteration) : j < m /\ m < k

C33_Witness ==
  /\ iteration_index = 2
  /\ pc = "RUN_REVIEW" /\ gw = "running"
  /\ Invoked("RUN_TESTS", 1) # {} /\ Invoked("RUN_TESTS", 2) # {}
  /\ OutputOf("RUN_TESTS", 2).exit_code = Some(1)
  /\ LiveTests = {}

\* C34: whatever max_retries is, the gateway calls the capability at least
\* once; with max_retries <= 1 a rate limit on the first attempt is raised at
\* once; and it sleeps after a rate-limited attempt only when another attempt
\* follows: once it is over it has slept one time less than it called, and
\* never after the attempt that exhausted the budget.
C34_SleepsBetweenAttempts ==
  /\ bo_pc = "done" => Len(bo_calls) >= 1
  /\ (bo_max_retries <= 1 /\ bo_calls # <<>> /\ bo_calls[1] = RateLimit)
       => /\ bo_pc = "done"
          /\ bo_outcome = Some(RateLimit)
          /\ Len(bo_calls) = 1
          /\ bo_sleeps = <<>>
  /\ bo_pc = "done" => Len(bo_sleeps) = Len(bo_calls) - 1
  /\ bo_pc = "sleeping" => (Len(bo_sleeps) = Len(bo_calls) /\ LastCall = RateLimit)
  /\ bo_pc = "running" => (Len(bo_sleeps) = Len(bo_calls) /\ bo_attempt = Len(bo_calls) + 1)
  /\ (bo_outcome = Some(RateLimit) /\ bo_max_retries >= 1)
       => Len(bo_sleeps) = bo_max_retries - 1

C34_Witness ==
  /\ bo_max_retries = 0
  /\ bo_pc = "done"
  /\ bo_outcome = Some(RateLimit)
  /\ Len(bo_calls) = 1
  /\ bo_sleeps = <<>>

\* C35: the backoff state belongs to one gateway invocation.  Every step that
\* invokes an agent starts at attempt 1 with the initial delay, whatever
\* rate limits earlier steps met; the attempt counter moves only by the
\* sleeps of the invocation at hand; and RateLimitError is raised only by an
\* invocation whose own attempts reached RATE_LIMIT_MAX_RETRIES.
C35_BudgetPerInvocation ==
  [][/\ (/\ Len(log') = Len(log) + 1
         /\ log'[Len(log')].event = "invoke"
         /\ log'[Len(log')].step \in AgentSteps)
          => (attempt' = 1 /\ delay' = RATE_LIMIT_INITIAL_DELAY)
     /\ (attempt' # attempt /\ attempt' > 1)
          => (gw = "sleeping" /\ attempt' = attempt + 1 /\ delay' = NextDelay(delay)
              /\ Len(log') = Len(log))
     /\ (error' = "RateLimitError" /\ error = "none")
          => (gw = "running" /\ attempt = RATE_LIMIT_MAX_RETRIES)
     /\ gw' = "idle" => (attempt' = 0 /\ delay' = 0)]_vars

\* a step at its first attempt with the initial delay although an earlier
\* step of the workflow was rate-limited
C35_Witness ==
  /\ gw = "running"
  /\ attempt = 1
  /\ delay = RATE_LIMIT_INITIAL_DELAY
  /\ GatewaySignal("WARNING", "Rate limit hit") \in signals
  /\ pc = "RUN_REVIEW"
  /\ iteration_index = 2
  /\ error = "none"

\* what is left of a line without the blanks and asterisks around it, blanks
\* dropped and letters in upper case
Core(line) ==
  LET inner == {k \in 1..Len(line) : line[k] \notin {" ", "*"}}
      Word(tok) == tok # " "
  IN IF inner = {} THEN <<>>
     ELSE LET lo == CHOOSE k \in inner : \A m \in inner : k <= m
              hi == CHOOSE k \in inner : \A m \in inner : m <= k
              words == SelectSeq(SubSeq(line, lo, hi), Word)
          IN [k \in 1..Len(words) |-> Upper(words[k])]

\* the positions of the lines of the prose that are wholly a declaration
DeclaredAt ==
  {n \in 1..Len(r_output.text) :
     Core(r_output.text[n]) \in {<<"OVERALL_STATUS:", "PASS">>, <<"OVERALL_STATUS:", "FAIL">>}}

\* the positions of the lines that mention the key and hold other text too
NearMissAt ==
  {n \in 1..Len(r_output.text) :
     /\ \E k \in 1..Len(r_output.text[n]) : Upper(r_output.text[n][k]) = "OVERALL_STATUS:"
     /\ n \notin DeclaredAt}

\* C36: in the text fallback only a line that is wholly OVERALL_STATUS: PASS
\* or OVERALL_STATUS: FAIL, apart from blanks and asterisks around it, is a
\* status declaration.  A line with any other text is no match: the backward
\* scan goes past it, and the decision is that of the last declaration before
\* it, or absent when there is none.
C36_OnlyWholeLinesDeclare ==
  (Resolved /\ IsProse)
    => /\ r_pc = "done"
       /\ DeclaredAt = {} => r_status = "None"
       /\ DeclaredAt # {} =>
            LET last == CHOOSE n \in DeclaredAt : \A m \in DeclaredAt : m <= n
            IN r_status = (IF Core(r_output.text[last])[2] = "PASS" THEN "True" ELSE "False")
       /\ \A n \in NearMissAt : _QA_STATUS_PATTERN(r_output.text[n]) = None

C36_Witness ==
  /\ r_pc = "done"
  /\ r_output = Text(<<PlainFail,
                       <<"Result:", " ", "OVERALL_STATUS:", " ", "PASS">>,
                       <<"OVERALL_STATUS:", " ", "PASS", ".">> >>)
  /\ NearMissAt = {2, 3}
  /\ r_status = "False"

\* the plan request of iteration i, once it was sent
PlanRequest(i) == log[CHOOSE k \in Invoked("REQUEST_PLAN", i) : TRUE].output

\* C37: when the decision of an iteration is not PASS and the feedback text
\* computed from its reviewer output is empty (the output is the empty
\* string), the plan request of the next iteration is the request without
\* feedback, equal to the plan request of iteration 1; after every other
\* iteration that did not pass, the next plan request holds the feedback
\* section and differs from the request of iteration 1.
C37_EmptyFeedbackIsNoFeedback ==
  \A j \in 2..max_iterations :
    Invoked("REQUEST_PLAN", j) # {} =>
      /\ Returned("RUN_REVIEW", j - 1) # {}
      /\ LET out == OutputOf("RUN_REVIEW", j - 1)
             fb == _planner_feedback_from_qa(_coerce_qa_review(out), out)
         IN /\ Decision(out) \in {"False", "None"}
            /\ fb = EmptyStr <=> out = TextEmpty
            /\ IF fb = EmptyStr
                 THEN /\ PlanRequest(j) = PlanRequest(1)
                      /\ ~HasLine(PlanRequest(j), FeedbackHeader)
                 ELSE /\ PlanRequest(j) # PlanRequest(1)
                      /\ ContainsLines(PlanRequest(j), <<FeedbackHeader>> \o strip(fb))

C37_Witness ==
  /\ Invoked("REQUEST_PLAN", 3) # {}
  /\ OutputOf("RUN_REVIEW", 1) = TextEmpty
  /\ OutputOf("RUN_REVIEW", 2) = TextNoStatus
  /\ PlanRequest(2) = PlanRequest(1)
  /\ PlanRequest(3) # PlanRequest(1)

\* ------------------------------------------- properties of the TaskTimer
\* the step is a call of start or stop / of to_report / the end of a process
StartOrStopStep == tt_now' = tt_now /\ tt_last'.op \in {"start", "stop"}
ReportStep == tt_now' = tt_now /\ tt_last'.op = "report"
ExitStep == Alive /\ tt_last'.op = "exit"

\* the task runs according to a table
RunsIn(tasks, task) == Find(tasks, task) # 0 /\ tasks[Find(tasks, task)].running

C39_RunningIffStarted ==
  [][/\ \A k \in 1..Len(tt_tasks') :
          tt_tasks'[k].running <=> tt_tasks'[k].start_time # None
     /\ ReportStep => (tt_tasks' = tt_tasks /\ tt_file' = tt_file)]_vars

C39_Witness ==
  /\ tt_last.op = "report" /\ tt_last.task = "default" /\ tt_last.seconds = 3
  /\ Len(tt_tasks) = 2
  /\ RunsIn(tt_tasks, "default")
  /\ ~RunsIn(tt_tasks, "build")
  /\ tt_tasks[Find(tt_tasks, "build")].elapsed = 1

\* the state file holds the table
FileHolds(file, tasks) ==
  IF file = None THEN tasks = <<>>
  ELSE Decodes(file[1]) /\ JsonLoad(file[1]) = tasks

\* C40: with a state file, the file holds the task table after every
\* successful start or stop and until the process ends, a TaskTimer opened
\* on the file has the table the file holds, and the empty table when there
\* is no file; so a task started by one process is stopped by a later one,
\* and starting it again fails with TaskTimerError (exit code 2).
C40_StateSurvives ==
  [][tt_path # None =>
       /\ Alive' => FileHolds(tt_file', tt_tasks')
       /\ ExitStep => (tt_file' = tt_file /\ FileHolds(tt_file', tt_tasks))
       /\ (StartOrStopStep /\ tt_file # None /\ Decodes(tt_file[1])) =>
            IF tt_last'.op = "start"
              THEN RunsIn(JsonLoad(tt_file[1]), tt_last'.task)
                     => (tt_last'.raised /\ MainReturns' = 2)
              ELSE RunsIn(JsonLoad(tt_file[1]), tt_last'.task)
                     => (~tt_last'.raised /\ MainReturns' = 0)]_vars

\* a TaskTimer just opened on the file of an earlier one: one task runs
\* since 1, the other one was stopped after 2 seconds
C40_Witness ==
  /\ tt_last = Called("open", "none", FALSE)
  /\ tt_path # None
  /\ Len(tt_tasks) = 2
  /\ RunsIn(tt_tasks, "build")
  /\ tt_tasks[Find(tt_tasks, "build")].start_time = Some(1)
  /\ tt_tasks[Find(tt_tasks, "default")].elapsed = 2
  /\ ~RunsIn(tt_tasks, "default")

====
